---- MODULE Spec2Model ----
(***************************************************************************)
(* A model of the user-management plugin: the authentication service       *)
(* (AuthService), the token codec it wraps (PyJWT, HS256) and the HTTP     *)
(* handlers of api/routes/auth.py, over a relational identity store.       *)
(*                                                                         *)
(* Time is counted in hours. A request handler is one action: the handlers *)
(* are `async def` bodies without an await, so inside one server process   *)
(* each runs to completion (specification Spec). SpecConc models several   *)
(* server processes sharing the database, where the uniqueness pre-check   *)
(* of register and the insert of create_user are separate database         *)
(* round trips.  SpecRbac models the role service (RBACService) over the   *)
(* roles, permissions and user_roles tables.                               *)
(*                                                                         *)
(* Tokens are not state: the server keeps none (no session row is written, *)
(* no blacklist exists), so what a handler answers is an operator of the   *)
(* store, the clock and the token presented.  The tokens a client can hold *)
(* at time t are those the codec can have signed at an earlier time.       *)
(***************************************************************************)
EXTENDS Integers, Sequences, FiniteSets, TLC

VARIABLES
    users,      \* the users table: id -> row
    nextId,     \* the next value of the users.id sequence
    now,        \* datetime.utcnow(), in hours
    settings,   \* the Settings instance read from the environment
    pending,    \* SpecConc: per worker, its register request and the answer it got
    roles,      \* the roles table with role_permissions: name -> row
    permissions \* the permissions table: the names stored

vars == <<users, nextId, now, settings, pending, roles, permissions>>

----------------------------------------------------------------------------
(* Bounds of the model *)

MaxUsers == 2
MaxTime == 48
TickHours == 24

(* Inputs *)
Emails == {"a@x.com", "A@x.com"}
Usernames == {"alice", "bob"}
Passwords == {"short7c", "longpass", "1234 678"}
\* Two passwords of 73 characters that differ in the last one only
Prefix72 == "AAAAAAAAAAAAAAAAAAAAAAAAAAAAAAAAAAAAAAAAAAAAAAAAAAAAAAAAAAAAAAAAAAAAAAAA"
LongPasswords == {Prefix72 \o "x", Prefix72 \o "y"}
AllPasswords == Passwords \cup LongPasswords
Salts == {"s1", "s2", "s3"}
\* The ids the users.id sequence hands out while at most MaxUsers rows are
\* stored: it starts at 1, and an INSERT that a unique index rejects keeps the
\* id it drew.  With n rows of room at most n INSERTs are in flight, one of
\* them is stored and the others are rejected, which leaves n - 1 rows of room.
UserIds == 1 .. (MaxUsers * (MaxUsers + 1)) \div 2
TtlHours == {0, 12, 36}
TtlDays == {0, 1, 2}
Workers == {"w1", "w2", "w3"}
\* The environment and the .env file of a start.  A variable is a text or
\* is not set; each name comes in its own spelling and in another one
\* (lower case), which os.getenv does not find and Settings() does.
EnvNames ==
    {"JWT_SECRET_KEY", "jwt_secret_key", "JWT_EXPIRATION_HOURS", "jwt_expiration_hours",
     "JWT_REFRESH_EXPIRATION_DAYS", "jwt_refresh_expiration_days"}
FieldNames == {"JWT_SECRET_KEY", "JWT_EXPIRATION_HOURS", "JWT_REFRESH_EXPIRATION_DAYS"}
NoDotEnv == [n \in FieldNames |-> "<unset>"]
\* The deployment of the requests below: lifetimes of 12 hours and 2 days,
\* the secret left to its default
PlainEnv ==
    [n \in EnvNames |->
        IF n = "JWT_EXPIRATION_HOURS" THEN "12"
        ELSE IF n = "JWT_REFRESH_EXPIRATION_DAYS" THEN "2"
        ELSE "<unset>"]
\* Deployments that set the secret or the access lifetime, in either
\* spelling or in .env, or leave them out
AnyEnvs ==
    {[PlainEnv EXCEPT !["JWT_SECRET_KEY"] = k1, !["jwt_secret_key"] = k2,
                      !["JWT_EXPIRATION_HOURS"] = h] :
        k1 \in {"<unset>", "dev-secret"}, k2 \in {"<unset>", "other-secret"},
        h \in {"<unset>", "12", "abc"}}
AnyDotEnvs ==
    {[NoDotEnv EXCEPT !["JWT_SECRET_KEY"] = k, !["JWT_EXPIRATION_HOURS"] = h] :
        k \in {"<unset>", "dotenv-secret"}, h \in {"<unset>", "6", "soon"}}

\* Python's None: a value that is no id and no time of the model
None == -1

----------------------------------------------------------------------------
(* Credential hasher: passlib CryptContext(schemes=["bcrypt"]).  A digest  *)
(* embeds its salt; verification re-hashes the candidate with that salt.   *)

\* bcrypt reads the first 72 bytes of the secret and no more
BcryptMaxBytes == 72
bcrypt_secret(password) ==
    IF Len(password) > BcryptMaxBytes THEN SubSeq(password, 1, BcryptMaxBytes) ELSE password

\* pwd_context.hash draws a new random salt for every hash it makes
hash_password(password, salt) ==
    [salt |-> salt, digest |-> <<salt, bcrypt_secret(password)>>]

verify_password(password, hashed) ==
    hashed.digest = <<hashed.salt, bcrypt_secret(password)>>

\* The salts pwd_context.hash can draw next: 16 random bytes, so a value that
\* no stored hash carries
FreshSalts(us) ==
    {s \in Salts : \A i \in DOMAIN us : us[i].password_hash.salt # s}

\* One draw standing for all of them, where nothing but the equality of two
\* salts is looked at
OneFreshSalt(us) ==
    IF FreshSalts(us) = {} THEN {} ELSE {CHOOSE s \in FreshSalts(us) : TRUE}

----------------------------------------------------------------------------
(* Token codec *)

\* os.getenv(name, default): the variable's value, or the default when the
\* environment does not set it
Unset == "<unset>"
getenv(env, name, default) == IF env[name] = Unset THEN default ELSE env[name]

\* settings.JWT_SECRET_KEY, the key of every encode and decode
JWT_SECRET_KEY == settings.JWT_SECRET_KEY
HoursPerDay == 24
SecondsPerHour == 3600

\* str(user_id) and int(payload.get("sub")) for the ids of the model
StrTable ==
    <<"0", "1", "2", "3", "4", "5", "6", "7", "8", "9", "10", "11", "12", "13", "14",
      "15", "16", "17", "18", "19", "20", "21", "22", "23", "24">>
str(n) == StrTable[n + 1]
int(s) == CHOOSE n \in 0 .. Len(StrTable) - 1 : StrTable[n + 1] = s
\* The texts int() takes; for the others it raises ValueError
IsIntText(s) == \E n \in 0 .. Len(StrTable) - 1 : StrTable[n + 1] = s

\* A start that raised: no Settings instance exists
SettingsFailed(raised) ==
    [raised |-> raised, JWT_SECRET_KEY |-> "", JWT_EXPIRATION_HOURS |-> None,
     JWT_REFRESH_EXPIRATION_DAYS |-> None]

\* The texts Settings() may take for a field: the environment first, under
\* either spelling of the name (case_sensitive = False; with both set, the
\* one the environment lists last), then .env, then the class default
SettingsField(env, dotenv, name, other, default) ==
    LET from_env == {env[name], env[other]} \ {Unset} IN
    IF from_env # {} THEN from_env
    ELSE IF dotenv[name] # Unset THEN {dotenv[name]}
    ELSE {default}

\* The Settings instances a start may end with.  The class body computes the
\* defaults with os.getenv, and int() of a lifetime that is no integer
\* raises ValueError when the module is imported; Settings() then reads the
\* environment and .env and raises ValidationError for such a lifetime.  No
\* field has a validator of its own.
Settings(env, dotenv) ==
    IF \E n \in {"JWT_EXPIRATION_HOURS", "JWT_REFRESH_EXPIRATION_DAYS"} :
           ~IsIntText(getenv(env, n, "0"))
    THEN {SettingsFailed("ValueError")}
    ELSE {IF IsIntText(h) /\ IsIntText(d)
          THEN [raised |-> "", JWT_SECRET_KEY |-> k, JWT_EXPIRATION_HOURS |-> int(h),
                JWT_REFRESH_EXPIRATION_DAYS |-> int(d)]
          ELSE SettingsFailed("ValidationError") :
             k \in SettingsField(env, dotenv, "JWT_SECRET_KEY", "jwt_secret_key",
                                 getenv(env, "JWT_SECRET_KEY",
                                        "your-secret-key-change-in-production-min-32-chars")),
             h \in SettingsField(env, dotenv, "JWT_EXPIRATION_HOURS", "jwt_expiration_hours",
                                 getenv(env, "JWT_EXPIRATION_HOURS", "24")),
             d \in SettingsField(env, dotenv, "JWT_REFRESH_EXPIRATION_DAYS",
                                 "jwt_refresh_expiration_days",
                                 getenv(env, "JWT_REFRESH_EXPIRATION_DAYS", "7"))}

\* get_settings() of the starts that did not raise
StartedSettings(envs, dotenvs) ==
    {cfg \in UNION {Settings(env, dotenv) : env \in envs, dotenv \in dotenvs} :
        cfg.raised = ""}

\* jwt.encode(payload, key, algorithm): the payload and the key that signed it
jwt_encode(payload, key) ==
    [sub |-> payload.sub, type |-> payload.type, exp |-> payload.exp,
     iat |-> payload.iat, key |-> key]

\* Faulty variant: the exp claim is not validated
jwt_decode_NoExp(token, key, t) ==
    LET payload == [sub |-> token.sub, type |-> token.type, exp |-> token.exp,
                    iat |-> token.iat] IN
    IF token.key # key THEN [raised |-> "InvalidTokenError", payload |-> payload]
    ELSE IF token.iat > t THEN [raised |-> "ImmatureSignatureError", payload |-> payload]
    ELSE [raised |-> "", payload |-> payload]

\* jwt.decode(token, key, algorithms): the signature first, then the iat
\* claim (PyJWT 2: not yet valid while iat > now), then the exp claim
\* (expired once exp <= now)
jwt_decode(token, key, t) ==
    LET payload == [sub |-> token.sub, type |-> token.type, exp |-> token.exp,
                    iat |-> token.iat] IN
    IF token.key # key THEN [raised |-> "InvalidTokenError", payload |-> payload]
    ELSE IF token.iat > t THEN [raised |-> "ImmatureSignatureError", payload |-> payload]
    ELSE IF token.exp <= t THEN [raised |-> "ExpiredSignatureError", payload |-> payload]
    ELSE [raised |-> "", payload |-> payload]

\* Faulty variant: the lifetime is added in minutes instead of hours
create_access_token_Minutes(user_id, expires_in_hours, t) ==
    jwt_encode([sub |-> str(user_id), type |-> "access",
                exp |-> t + (expires_in_hours \div 60), iat |-> t], JWT_SECRET_KEY)

\* utcnow() + timedelta(hours=...): the lifetimes of the model keep the sum
\* within datetime's range
create_access_token(user_id, expires_in_hours, t) ==
    jwt_encode([sub |-> str(user_id), type |-> "access",
                exp |-> t + expires_in_hours, iat |-> t], JWT_SECRET_KEY)

create_refresh_token(user_id, expires_in_days, t) ==
    jwt_encode([sub |-> str(user_id), type |-> "refresh",
                exp |-> t + HoursPerDay * expires_in_days, iat |-> t], JWT_SECRET_KEY)

\* Faulty variant: the token of a user who is not stored and active is refused
verify_access_token_ChecksStore(token, t) ==
    LET decoded == jwt_decode(token, JWT_SECRET_KEY, t) IN
    IF decoded.raised # "" THEN None
    ELSE IF decoded.payload.type # "access" THEN None
    ELSE IF int(decoded.payload.sub) \notin DOMAIN users THEN None
    ELSE IF ~users[int(decoded.payload.sub)].is_active THEN None
    ELSE int(decoded.payload.sub)

\* Faulty variant: the type discriminant is not checked
verify_access_token_AnyType(token, t) ==
    LET decoded == jwt_decode(token, JWT_SECRET_KEY, t) IN
    IF decoded.raised # "" THEN None
    ELSE int(decoded.payload.sub)

verify_access_token(token, t) ==
    LET decoded == jwt_decode(token, JWT_SECRET_KEY, t) IN
    IF decoded.raised # "" THEN None
    ELSE IF decoded.payload.type # "access" THEN None
    ELSE int(decoded.payload.sub)

verify_refresh_token(token, t) ==
    LET decoded == jwt_decode(token, JWT_SECRET_KEY, t) IN
    IF decoded.raised # "" THEN None
    ELSE IF decoded.payload.type # "refresh" THEN None
    ELSE int(decoded.payload.sub)

\* Python's `not x` for the values a verifier returns (None or an int)
Falsy(x) == x = None \/ x = 0

\* The clock readings up to t
TimesUpTo(t) == {s \in 0 .. t : s % TickHours = 0}

\* The tokens the codec can have signed by time t
AccessTokensBy(t) ==
    {create_access_token(u, h, s) : u \in UserIds, h \in TtlHours, s \in TimesUpTo(t)}
RefreshTokensBy(t) ==
    {create_refresh_token(u, d, s) : u \in UserIds, d \in TtlDays, s \in TimesUpTo(t)}
WellSigned(t) == AccessTokensBy(t) \cup RefreshTokensBy(t)

\* What a client without the secret can add: a signed token with its type
\* rewritten (the signature no longer fits), or a token signed with its own key
Tampered(tok) ==
    [tok EXCEPT !.type = IF tok.type = "access" THEN "refresh" ELSE "access",
                !.key = "tampered"]
Forged == [sub |-> "1", type |-> "access", exp |-> MaxTime + TickHours, iat |-> 0,
           key |-> "attacker-key"]
Presentable(t) == WellSigned(t) \cup {Tampered(tok) : tok \in WellSigned(t)} \cup {Forged}

\* The tokens of the requests the model fires: those login and refresh hand
\* out under the configured lifetimes, for any id, and the forged one
RequestTokens(cfg, t) ==
    {create_access_token(u, cfg.JWT_EXPIRATION_HOURS, s) : u \in UserIds, s \in TimesUpTo(t)}
    \cup {create_refresh_token(u, cfg.JWT_REFRESH_EXPIRATION_DAYS, s) :
             u \in UserIds, s \in TimesUpTo(t)}
    \cup {Forged}

----------------------------------------------------------------------------
(* Identity store *)

\* db.query(User).filter(User.email == email).first()
UserByEmail(us, email) ==
    IF \E id \in DOMAIN us : us[id].email = email
    THEN CHOOSE id \in DOMAIN us : us[id].email = email
    ELSE None

\* db.query(User).filter(User.id == user_id).first()
UserById(us, user_id) == IF user_id \in DOMAIN us THEN user_id ELSE None

\* Faulty variant: the pre-check looks at the email only
ExistingUser_EmailOnly(us, email, username) ==
    \E id \in DOMAIN us : us[id].email = email

\* db.query(User).filter((User.email == e) | (User.username == n)).first()
ExistingUser(us, email, username) ==
    \E id \in DOMAIN us : us[id].email = email \/ us[id].username = username

\* The unique indexes on users.email and users.username
UniqueViolation(us, email, username) ==
    \E id \in DOMAIN us : us[id].email = email \/ us[id].username = username

\* The row of User(email, username, password_hash) after its INSERT at t:
\* the column defaults, updated_at among them
NewUser(email, username, hashed, t) ==
    [email |-> email, username |-> username, password_hash |-> hashed,
     is_active |-> TRUE, is_email_verified |-> FALSE,
     last_login |-> None, updated_at |-> t, deleted_at |-> None,
     roles |-> << >>, user_roles |-> << >>]

\* AuthService.create_user: hash, add, commit.  The commit raises
\* IntegrityError when a unique index is violated; nothing is stored then,
\* but the INSERT has drawn id from the sequence, which does not give it back.
create_user(us, id, email, username, password, salt, t) ==
    IF UniqueViolation(us, email, username)
    THEN [raised |-> "IntegrityError", users |-> us, id |-> None]
    ELSE [raised |-> "",
          users |-> [i \in DOMAIN us \cup {id} |->
                        IF i = id THEN NewUser(email, username, hash_password(password, salt), t)
                        ELSE us[i]],
          id |-> id]

----------------------------------------------------------------------------
Idle == [stage |-> "idle"]

\* init_db creates the tables with Base.metadata.create_all: the users.id
\* sequence starts at 1
InitFrom(envs, dotenvs) ==
    /\ users = << >>
    /\ nextId = 1
    /\ now = 0
    /\ settings \in StartedSettings(envs, dotenvs)
    /\ pending = [w \in Workers |-> Idle]
    /\ roles = << >>
    /\ permissions = {}

\* The deployment that leaves JWT_SECRET_KEY to its default
Init == InitFrom({PlainEnv}, {NoDotEnv})

----------------------------------------------------------------------------
(* POST /api/auth/register *)

Resp409 == [status |-> 409, detail |-> "Email or username already registered"]
Resp400 == [status |-> 400, detail |-> "Password must be at least 8 characters"]
\* app.py's handler for any exception that is not an HTTPException
Resp500 == [status |-> 500, detail |-> "Internal server error"]

\* The columns and the property of the User class: what pydantic can read
\* from a users row (from_attributes = True)
UserAttributes ==
    {"id", "username", "email", "password_hash", "first_name", "last_name", "avatar_url",
     "bio", "phone", "is_active", "is_email_verified", "email_verified_at", "last_login",
     "created_at", "updated_at", "deleted_at", "roles", "role", "full_name"}

\* The fields of UserResponse that have no default
UserResponseRequired == {"id", "email", "username", "is_active", "is_verified", "created_at"}

\* response_model=UserResponse applied to the User a handler returns: the
\* response with the handler's status code, or ResponseValidationError,
\* which app.py answers with 500
UserResponse(status) ==
    IF UserResponseRequired \subseteq UserAttributes
    THEN [status |-> status, detail |-> ""]
    ELSE Resp500

\* Faulty variant: the password length is checked before the lookup
register_precheck_LengthFirst(us, email, username, password) ==
    IF Len(password) < 8 THEN Resp400
    ELSE IF ExistingUser(us, email, username) THEN Resp409
    ELSE [status |-> 0, detail |-> ""]

\* Faulty variant: the length check is off by one
register_precheck_OffByOne(us, email, username, password) ==
    IF ExistingUser(us, email, username) THEN Resp409
    ELSE IF Len(password) <= 8 THEN Resp400
    ELSE [status |-> 0, detail |-> ""]

\* The handler up to the call of create_user: the response it raises, or
\* [status |-> 0] when it goes on to create the user
register_precheck(us, email, username, password) ==
    IF ExistingUser(us, email, username) THEN Resp409
    ELSE IF Len(password) < 8 THEN Resp400
    ELSE [status |-> 0, detail |-> ""]

\* The whole handler: the response, the table afterwards, the id created
register(us, id, email, username, password, salt, t) ==
    LET pre == register_precheck(us, email, username, password) IN
    IF pre.status # 0 THEN [response |-> pre, users |-> us, id |-> None]
    ELSE LET c == create_user(us, id, email, username, password, salt, t) IN
         IF c.raised # ""
         THEN [response |-> Resp500, users |-> us, id |-> None]
         ELSE [response |-> UserResponse(201), users |-> c.users, id |-> c.id]

Register(email, username, password, salt) ==
    LET r == register(users, nextId, email, username, password, salt, now) IN
    /\ salt \in FreshSalts(users)
    /\ r.id # None => Cardinality(DOMAIN users) < MaxUsers
    /\ users' = r.users
    /\ nextId' = IF register_precheck(users, email, username, password).status = 0
                 THEN nextId + 1
                 ELSE nextId
    /\ UNCHANGED <<now, settings, pending, roles, permissions>>

----------------------------------------------------------------------------
(* AuthService.authenticate_user and POST /api/auth/login *)

\* Faulty variant: the is_active check is missing
authenticate_user_NoActiveCheck(us, email, password) ==
    LET user == UserByEmail(us, email) IN
    IF user = None THEN None
    ELSE IF ~verify_password(password, us[user].password_hash) THEN None
    ELSE user

\* The user returned (None on failure); on success last_login is written
authenticate_user(us, email, password) ==
    LET user == UserByEmail(us, email) IN
    IF user = None THEN None
    ELSE IF ~verify_password(password, us[user].password_hash) THEN None
    ELSE IF ~us[user].is_active THEN None
    ELSE user

\* Faulty variant: the attempt is stamped on every row, whatever its outcome
authenticate_user_commit_EveryRow(us, user, t) ==
    [i \in DOMAIN us |-> [us[i] EXCEPT !.last_login = t, !.updated_at = t]]

\* user.last_login = datetime.utcnow(); db.commit(): the UPDATE of the row
\* also writes updated_at, through its onupdate=func.now()
authenticate_user_commit(us, user, t) ==
    IF user = None THEN us
    ELSE [us EXCEPT ![user].last_login = t, ![user].updated_at = t]

Resp401Login == [status |-> 401, detail |-> "Invalid email or password"]

\* Faulty variant: the second token is an access token too
login_TwoAccessTokens(us, cfg, email, password, t) ==
    LET user == authenticate_user(us, email, password) IN
    IF user = None
    THEN [response |-> Resp401Login, users |-> authenticate_user_commit(us, user, t)]
    ELSE [response |->
            [status |-> 200,
             access_token |-> create_access_token(user, cfg.JWT_EXPIRATION_HOURS, t),
             refresh_token |-> create_access_token(user, cfg.JWT_EXPIRATION_HOURS, t),
             token_type |-> "bearer",
             expires_in |-> cfg.JWT_EXPIRATION_HOURS * SecondsPerHour],
          users |-> authenticate_user_commit(us, user, t)]

login(us, cfg, email, password, t) ==
    LET user == authenticate_user(us, email, password) IN
    IF user = None
    THEN [response |-> Resp401Login, users |-> authenticate_user_commit(us, user, t)]
    ELSE [response |->
            [status |-> 200,
             access_token |-> create_access_token(user, cfg.JWT_EXPIRATION_HOURS, t),
             refresh_token |-> create_refresh_token(user, cfg.JWT_REFRESH_EXPIRATION_DAYS, t),
             token_type |-> "bearer",
             expires_in |-> cfg.JWT_EXPIRATION_HOURS * SecondsPerHour],
          users |-> authenticate_user_commit(us, user, t)]

Login(email, password) ==
    /\ users' = login(users, settings, email, password, now).users
    /\ UNCHANGED <<nextId, now, settings, pending, roles, permissions>>

----------------------------------------------------------------------------
(* AuthService.get_current_user, the dependency behind GET /api/auth/me *)

\* Faulty variant: the is_active check is missing
get_current_user_NoActiveCheck(us, token, t) ==
    LET user_id == verify_access_token(token, t) IN
    IF Falsy(user_id)
    THEN [status |-> 401, detail |-> "Invalid or expired token", user |-> None]
    ELSE LET user == UserById(us, user_id) IN
         IF user = None
         THEN [status |-> 404, detail |-> "User not found", user |-> None]
         ELSE [status |-> 200, detail |-> "", user |-> user]

get_current_user(us, token, t) ==
    LET user_id == verify_access_token(token, t) IN
    IF Falsy(user_id)
    THEN [status |-> 401, detail |-> "Invalid or expired token", user |-> None]
    ELSE LET user == UserById(us, user_id) IN
         IF user = None
         THEN [status |-> 404, detail |-> "User not found", user |-> None]
         ELSE IF ~us[user].is_active
         THEN [status |-> 403, detail |-> "User account is inactive", user |-> None]
         ELSE [status |-> 200, detail |-> "", user |-> user]

\* GET /api/auth/me: the dependency's user through response_model
me(us, token, t) ==
    LET current_user == get_current_user(us, token, t) IN
    IF current_user.status # 200
    THEN [status |-> current_user.status, detail |-> current_user.detail]
    ELSE UserResponse(200)

Me(token) ==
    /\ me(users, token, now).status \in {200, 401, 403, 404, 500}
    /\ UNCHANGED vars

----------------------------------------------------------------------------
(* POST /api/auth/refresh *)

\* Faulty variant: the user is not looked up
refresh_token_NoUserLookup(us, cfg, token, t) ==
    LET user_id == verify_refresh_token(token, t) IN
    IF Falsy(user_id)
    THEN [status |-> 401, detail |-> "Invalid or expired refresh token"]
    ELSE [status |-> 200,
          access_token |-> create_access_token(user_id, cfg.JWT_EXPIRATION_HOURS, t),
          refresh_token |-> token,
          token_type |-> "bearer",
          expires_in |-> cfg.JWT_EXPIRATION_HOURS * SecondsPerHour]

\* Faulty variant: a new refresh token is handed out with the access token
refresh_token_Rotates(us, cfg, token, t) ==
    LET user_id == verify_refresh_token(token, t) IN
    IF Falsy(user_id)
    THEN [status |-> 401, detail |-> "Invalid or expired refresh token"]
    ELSE IF UserById(us, user_id) = None
    THEN [status |-> 404, detail |-> "User not found"]
    ELSE [status |-> 200,
          access_token |-> create_access_token(user_id, cfg.JWT_EXPIRATION_HOURS, t),
          refresh_token |-> create_refresh_token(user_id, cfg.JWT_REFRESH_EXPIRATION_DAYS, t),
          token_type |-> "bearer",
          expires_in |-> cfg.JWT_EXPIRATION_HOURS * SecondsPerHour]

\* Faulty variant: an inactive user is refused as get_current_user refuses it
refresh_token_ChecksActive(us, cfg, token, t) ==
    LET user_id == verify_refresh_token(token, t) IN
    IF Falsy(user_id)
    THEN [status |-> 401, detail |-> "Invalid or expired refresh token"]
    ELSE IF UserById(us, user_id) = None
    THEN [status |-> 404, detail |-> "User not found"]
    ELSE IF ~us[user_id].is_active
    THEN [status |-> 403, detail |-> "User account is inactive"]
    ELSE [status |-> 200,
          access_token |-> create_access_token(user_id, cfg.JWT_EXPIRATION_HOURS, t),
          refresh_token |-> token,
          token_type |-> "bearer",
          expires_in |-> cfg.JWT_EXPIRATION_HOURS * SecondsPerHour]

refresh_token(us, cfg, token, t) ==
    LET user_id == verify_refresh_token(token, t) IN
    IF Falsy(user_id)
    THEN [status |-> 401, detail |-> "Invalid or expired refresh token"]
    ELSE IF UserById(us, user_id) = None
    THEN [status |-> 404, detail |-> "User not found"]
    ELSE [status |-> 200,
          access_token |-> create_access_token(user_id, cfg.JWT_EXPIRATION_HOURS, t),
          refresh_token |-> token,
          token_type |-> "bearer",
          expires_in |-> cfg.JWT_EXPIRATION_HOURS * SecondsPerHour]

Refresh(token) ==
    /\ refresh_token(users, settings, token, now).status \in {200, 401, 404}
    /\ UNCHANGED vars

----------------------------------------------------------------------------
(* AuthService.change_password and POST /api/auth/change-password *)

\* Faulty variant: the registration rule is applied to the new password
change_password_MinLength(us, user, old_password, new_password, salt, t) ==
    IF ~verify_password(old_password, us[user].password_hash)
    THEN [result |-> FALSE, users |-> us]
    ELSE IF Len(new_password) < 8
    THEN [result |-> FALSE, users |-> us]
    ELSE [result |-> TRUE,
          users |-> [us EXCEPT ![user].password_hash = hash_password(new_password, salt),
                               ![user].updated_at = t]]

\* Faulty variant: the old password is not verified
change_password_NoOldCheck(us, user, old_password, new_password, salt, t) ==
    [result |-> TRUE,
     users |-> [us EXCEPT ![user].password_hash = hash_password(new_password, salt),
                          ![user].updated_at = t]]

\* The service: the boolean returned and the table afterwards (the UPDATE
\* of password_hash writes updated_at as every UPDATE of the row does)
change_password(us, user, old_password, new_password, salt, t) ==
    IF ~verify_password(old_password, us[user].password_hash)
    THEN [result |-> FALSE, users |-> us]
    ELSE [result |-> TRUE,
          users |-> [us EXCEPT ![user].password_hash = hash_password(new_password, salt),
                               ![user].updated_at = t]]

\* The route: get_current_user is its dependency, then the same two steps
change_password_route(us, token, old_password, new_password, salt, t) ==
    LET current_user == get_current_user(us, token, t) IN
    IF current_user.status # 200
    THEN [status |-> current_user.status, detail |-> current_user.detail, users |-> us]
    ELSE IF ~verify_password(old_password, us[current_user.user].password_hash)
    THEN [status |-> 401, detail |-> "Invalid current password", users |-> us]
    ELSE [status |-> 200, detail |-> "Password changed successfully",
          users |-> [us EXCEPT ![current_user.user].password_hash =
                                   hash_password(new_password, salt),
                               ![current_user.user].updated_at = t]]

\* A direct call of the service by the host application
ChangePassword(user, old_password, new_password, salt) ==
    /\ user \in DOMAIN users
    /\ salt \in FreshSalts(users)
    /\ users' = change_password(users, user, old_password, new_password, salt, now).users
    /\ UNCHANGED <<nextId, now, settings, pending, roles, permissions>>

\* The access tokens of the logins of this hour, for any id, and the forged one
FreshAccessTokens(cfg, t) ==
    {create_access_token(u, cfg.JWT_EXPIRATION_HOURS, t) : u \in UserIds} \cup {Forged}

ChangePasswordRoute(token, old_password, new_password, salt) ==
    /\ salt \in FreshSalts(users)
    /\ users' = change_password_route(users, token, old_password, new_password, salt, now).users
    /\ UNCHANGED <<nextId, now, settings, pending, roles, permissions>>

----------------------------------------------------------------------------
(* services/auth.py: the earlier copy of AuthService, without the token    *)
(* methods.  It uses its own CryptContext(schemes=["bcrypt"]) and the same *)
(* User table.                                                             *)

legacy_hash_password(password, salt) ==
    [salt |-> salt, digest |-> <<salt, bcrypt_secret(password)>>]

legacy_verify_password(password, hashed) ==
    hashed.digest = <<hashed.salt, bcrypt_secret(password)>>

\* hash, User(...), db.add, db.commit, db.refresh
legacy_create_user(us, id, email, username, password, salt, t) ==
    LET hashed_password == legacy_hash_password(password, salt) IN
    IF UniqueViolation(us, email, username)
    THEN [raised |-> "IntegrityError", users |-> us, id |-> None]
    ELSE [raised |-> "",
          users |-> [i \in DOMAIN us \cup {id} |->
                        IF i = id THEN NewUser(email, username, hashed_password, t)
                        ELSE us[i]],
          id |-> id]

\* Faulty variant: the is_active check is missing
legacy_authenticate_user_NoActiveCheck(us, email, password) ==
    LET user == UserByEmail(us, email) IN
    IF user = None THEN None
    ELSE IF ~legacy_verify_password(password, us[user].password_hash) THEN None
    ELSE user

legacy_authenticate_user(us, email, password) ==
    LET user == UserByEmail(us, email) IN
    IF user = None THEN None
    ELSE IF ~legacy_verify_password(password, us[user].password_hash) THEN None
    ELSE IF ~us[user].is_active THEN None
    ELSE user

\* user.last_login = datetime.utcnow(); db.commit()
legacy_authenticate_user_commit(us, user, t) ==
    IF user = None THEN us
    ELSE [us EXCEPT ![user].last_login = t, ![user].updated_at = t]

legacy_change_password(us, user, old_password, new_password, salt, t) ==
    IF ~legacy_verify_password(old_password, us[user].password_hash)
    THEN [result |-> FALSE, users |-> us]
    ELSE [result |-> TRUE,
          users |-> [us EXCEPT ![user].password_hash =
                                   legacy_hash_password(new_password, salt),
                               ![user].updated_at = t]]

----------------------------------------------------------------------------
(* POST /api/auth/logout and POST /api/auth/password-reset-request *)

\* logout: get_current_user is its dependency; the body is `pass`
logout(us, token, t) ==
    LET current_user == get_current_user(us, token, t) IN
    IF current_user.status # 200
    THEN [status |-> current_user.status, users |-> us]
    ELSE [status |-> 204, users |-> us]

Logout(token) ==
    /\ users' = logout(users, token, now).users
    /\ UNCHANGED <<nextId, now, settings, pending, roles, permissions>>

ResetRequested == [status |-> 200,
                   message |-> "If email exists, password reset link has been sent"]

\* Faulty variant: an unknown email is told apart
request_password_reset_Reveals(us, email) ==
    LET user == UserByEmail(us, email) IN
    IF user = None
    THEN [response |-> [status |-> 404, message |-> "User not found"], users |-> us]
    ELSE [response |-> ResetRequested, users |-> us]

\* request_password_reset: the user is looked up, both branches return
request_password_reset(us, email) ==
    LET user == UserByEmail(us, email) IN
    IF user = None
    THEN [response |-> ResetRequested, users |-> us]
    ELSE [response |-> ResetRequested, users |-> us]

RequestPasswordReset(email) ==
    /\ users' = request_password_reset(users, email).users
    /\ UNCHANGED <<nextId, now, settings, pending, roles, permissions>>

----------------------------------------------------------------------------
(* The host application's writes to the users table: the status columns   *)
(* is_active and deleted_at of the User lifecycle, written through the     *)
(* User model, so that updated_at follows.                                 *)

Deactivate(id) ==
    /\ id \in DOMAIN users
    /\ users[id].is_active
    /\ users' = [users EXCEPT ![id].is_active = FALSE, ![id].updated_at = now]
    /\ UNCHANGED <<nextId, now, settings, pending, roles, permissions>>

Activate(id) ==
    /\ id \in DOMAIN users
    /\ ~users[id].is_active
    /\ users' = [users EXCEPT ![id].is_active = TRUE, ![id].updated_at = now]
    /\ UNCHANGED <<nextId, now, settings, pending, roles, permissions>>

SoftDelete(id) ==
    /\ id \in DOMAIN users
    /\ users[id].deleted_at = None
    /\ users' = [users EXCEPT ![id].deleted_at = now, ![id].updated_at = now]
    /\ UNCHANGED <<nextId, now, settings, pending, roles, permissions>>

Tick ==
    /\ now + TickHours <= MaxTime
    /\ now' = now + TickHours
    /\ UNCHANGED <<users, nextId, settings, pending, roles, permissions>>

----------------------------------------------------------------------------
Next ==
    \/ \E e \in Emails, u \in Usernames, p \in Passwords, s \in OneFreshSalt(users) : Register(e, u, p, s)
    \/ \E e \in Emails, p \in Passwords : Login(e, p)
    \/ \E tok \in RequestTokens(settings, now) : Me(tok)
    \/ \E tok \in RequestTokens(settings, now) : Refresh(tok)
    \/ \E id \in UserIds : Deactivate(id)
    \/ \E id \in UserIds : Activate(id)
    \/ \E id \in UserIds : SoftDelete(id)
    \/ Tick

Spec == Init /\ [][Next]_vars

----------------------------------------------------------------------------
(* The life of a password: registration, logins, changes through the       *)
(* service and through the route, and the host's is_active switch.         *)

NextPwd ==
    \/ \E e \in Emails, u \in Usernames, p \in Passwords, s \in OneFreshSalt(users) : Register(e, u, p, s)
    \/ \E e \in Emails, p \in Passwords : Login(e, p)
    \/ \E id \in UserIds, old, new \in Passwords, s \in OneFreshSalt(users) : ChangePassword(id, old, new, s)
    \/ \E tok \in FreshAccessTokens(settings, now), old, new \in Passwords, s \in OneFreshSalt(users) :
          ChangePasswordRoute(tok, old, new, s)
    \/ \E tok \in FreshAccessTokens(settings, now) : Logout(tok)
    \/ \E e \in Emails : RequestPasswordReset(e)
    \/ \E id \in UserIds : Deactivate(id)
    \/ \E id \in UserIds : Activate(id)
    \/ Tick

SpecPwd == Init /\ [][NextPwd]_vars

----------------------------------------------------------------------------
(* One account whose passwords are longer than the 72 bytes bcrypt reads.   *)

BcryptPasswords == LongPasswords \cup {"longpass"}

NextBcrypt ==
    \/ \E p \in BcryptPasswords, s \in FreshSalts(users) : Register("a@x.com", "alice", p, s)
    \/ \E p \in BcryptPasswords : Login("a@x.com", p)
    \/ \E id \in UserIds, old, new \in BcryptPasswords, s \in FreshSalts(users) :
          ChangePassword(id, old, new, s)
    \/ \E id \in UserIds : Deactivate(id)
    \/ \E id \in UserIds : Activate(id)
    \/ Tick

SpecBcrypt == Init /\ [][NextBcrypt]_vars

----------------------------------------------------------------------------
(* Deployments that set JWT_SECRET_KEY in the environment, and the requests *)
(* that sign and verify tokens with it.                                     *)

InitConfig == InitFrom(AnyEnvs, AnyDotEnvs)

NextConfig ==
    \/ \E e \in Emails, u \in Usernames, s \in FreshSalts(users) : Register(e, u, "longpass", s)
    \/ \E e \in Emails, p \in Passwords : Login(e, p)
    \/ \E tok \in RequestTokens(settings, now) : Me(tok)
    \/ \E tok \in RequestTokens(settings, now) : Refresh(tok)
    \/ \E id \in UserIds : Deactivate(id)
    \/ \E id \in UserIds : Activate(id)

SpecConfig == InitConfig /\ [][NextConfig]_vars

----------------------------------------------------------------------------
(* A users table that holds a row with id 0.  The sequence never hands 0   *)
(* out; the row is one written with an explicit id (an import), which the   *)
(* integer primary key accepts.  get_current_user and the refresh route     *)
(* are read here as functions of such a table.                              *)

\* The tables the handlers are applied to: the row 0, alone or next to row 1
ZeroStores ==
    {[i \in ids |->
         IF i = 0 THEN NewUser("a@x.com", "alice", hash_password("longpass", "s1"), 0)
         ELSE NewUser("A@x.com", "bob", hash_password("longpass", "s2"), 0)] :
     ids \in {{0}, {0, 1}}}

InitIdZero ==
    /\ users \in ZeroStores
    /\ nextId = Cardinality(DOMAIN users)
    /\ now = 0
    /\ settings \in StartedSettings({PlainEnv}, {NoDotEnv})
    /\ pending = [w \in Workers |-> Idle]
    /\ roles = << >>
    /\ permissions = {}

\* The tokens login and refresh hand out to the users of the table
TokensOfStored(us, cfg, t) ==
    {create_access_token(u, cfg.JWT_EXPIRATION_HOURS, s) : u \in DOMAIN us, s \in TimesUpTo(t)}
    \cup {create_refresh_token(u, cfg.JWT_REFRESH_EXPIRATION_DAYS, s) :
             u \in DOMAIN us, s \in TimesUpTo(t)}

NextIdZero ==
    \/ \E e \in Emails, p \in Passwords : Login(e, p)
    \/ \E tok \in TokensOfStored(users, settings, now) : Me(tok)
    \/ \E tok \in TokensOfStored(users, settings, now) : Refresh(tok)
    \/ \E id \in DOMAIN users : Deactivate(id)
    \/ \E id \in DOMAIN users : Activate(id)
    \/ Tick

SpecIdZero == InitIdZero /\ [][NextIdZero]_vars

----------------------------------------------------------------------------
(* Server processes on one database.  register reads the table (the        *)
(* pre-check), and create_user writes it in a later round trip: the other  *)
(* process can commit in between.                                          *)

\* register, lines 105-121: the pre-check query and the length check.  A
\* request that goes on to create_user is taken only while the rows stored
\* and the INSERTs in flight leave room under MaxUsers.
RegisterCheck(w, email, username, password) ==
    LET pre == register_precheck(users, email, username, password) IN
    /\ pending[w].stage = "idle"
    /\ pre.status = 0 =>
          Cardinality(DOMAIN users)
              + Cardinality({v \in Workers : pending[v].stage = "checked"}) < MaxUsers
    /\ pending' = [pending EXCEPT ![w] =
            IF pre.status # 0
            THEN [stage |-> "done", email |-> email, username |-> username,
                  password |-> password, from |-> "precheck", response |-> pre]
            ELSE [stage |-> "checked", email |-> email, username |-> username,
                  password |-> password]]
    /\ UNCHANGED <<users, nextId, now, settings, roles, permissions>>

\* register, lines 123-133: create_user and its commit.  An IntegrityError
\* is caught nowhere, so the framework answers 500.
RegisterCreate(w, salt) ==
    /\ pending[w].stage = "checked"
    /\ salt \in FreshSalts(users)
    /\ LET req == pending[w]
           c == create_user(users, nextId, req.email, req.username, req.password, salt, now)
       IN
       /\ users' = c.users
       /\ nextId' = nextId + 1     \* also when the INSERT is rejected
       /\ pending' = [pending EXCEPT ![w] =
               [stage |-> "done", email |-> req.email, username |-> req.username,
                password |-> req.password, from |-> "create_user",
                response |-> IF c.raised # "" THEN Resp500 ELSE UserResponse(201)]]
    /\ UNCHANGED <<now, settings, roles, permissions>>

\* The response is sent; the process takes its next request
Respond(w) ==
    /\ pending[w].stage = "done"
    /\ pending' = [pending EXCEPT ![w] = Idle]
    /\ UNCHANGED <<users, nextId, now, settings, roles, permissions>>

NextConc ==
    \/ \E w \in Workers, e \in Emails, u \in Usernames, p \in Passwords :
          RegisterCheck(w, e, u, p)
    \/ \E w \in Workers, s \in FreshSalts(users) : RegisterCreate(w, s)
    \/ \E w \in Workers : Respond(w)

SpecConc == Init /\ [][NextConc]_vars

----------------------------------------------------------------------------
(* Role-based access control: models/user.py, RBACService and the seed of   *)
(* the roles and permissions tables.  A role is referred to by its name     *)
(* (roles.name is unique); user.roles is the list the ORM relationship      *)
(* loads from user_roles.                                                   *)

MaxRoles == 2

\* The role names and permission names of the requests the model fires
RoleNames == {"super_admin", "admin", "editor", "manager", "ghost"}
PermissionNames == {"users:delete", "users:read", "posts:read", "reports:view", "no:such"}

SYSTEM_ROLES ==
    <<[name |-> "super_admin", level |-> 40, is_system |-> TRUE],
      [name |-> "admin", level |-> 30, is_system |-> TRUE],
      [name |-> "editor", level |-> 20, is_system |-> TRUE],
      [name |-> "author", level |-> 10, is_system |-> TRUE],
      [name |-> "user", level |-> 0, is_system |-> TRUE]>>

SystemRoleNames == {SYSTEM_ROLES[i].name : i \in 1 .. Len(SYSTEM_ROLES)}

PERMISSIONS ==
    {"users:list", "users:create", "users:read", "users:update", "users:delete",
     "users:manage_roles", "users:view_activity",
     "posts:create", "posts:read", "posts:update", "posts:delete", "posts:publish",
     "posts:schedule", "posts:bulk_update",
     "comments:create", "comments:read", "comments:update", "comments:delete",
     "comments:moderate", "comments:approve",
     "analytics:view", "analytics:export",
     "settings:manage", "settings:manage_roles"}

ROLE_PERMISSIONS ==
    [super_admin |->
        {"users:list", "users:create", "users:read", "users:update", "users:delete",
         "users:manage_roles", "users:view_activity",
         "posts:create", "posts:read", "posts:update", "posts:delete", "posts:publish",
         "posts:schedule", "posts:bulk_update",
         "comments:create", "comments:read", "comments:update", "comments:delete",
         "comments:moderate", "comments:approve",
         "analytics:view", "analytics:export",
         "settings:manage", "settings:manage_roles"},
     admin |->
        {"users:list", "users:create", "users:read", "users:update", "users:delete",
         "users:manage_roles", "users:view_activity",
         "posts:create", "posts:read", "posts:update", "posts:delete", "posts:publish",
         "posts:schedule", "posts:bulk_update",
         "comments:create", "comments:read", "comments:update", "comments:delete",
         "comments:moderate", "comments:approve",
         "analytics:view", "analytics:export",
         "settings:manage_roles"},
     editor |->
        {"posts:create", "posts:read", "posts:update", "posts:delete", "posts:publish",
         "posts:schedule", "posts:bulk_update",
         "comments:read", "comments:moderate", "comments:approve",
         "users:read"},
     author |->
        {"posts:create", "posts:read", "posts:update",
         "comments:create", "comments:read"},
     user |->
        {"posts:read",
         "comments:create", "comments:read"}]

\* seed_roles_and_permissions: every permission not stored is added, then
\* every system role not stored is added with those of its permissions that
\* the table holds; rows already stored are left as they are.
seed_permissions(ps) == ps \cup PERMISSIONS

\* Faulty variant: a role already stored is granted every stored permission
seed_roles_RegrantStored(rs, ps) ==
    LET names == {SYSTEM_ROLES[i].name : i \in 1 .. Len(SYSTEM_ROLES)}
        config(n) == CHOOSE c \in {SYSTEM_ROLES[i] : i \in 1 .. Len(SYSTEM_ROLES)} : c.name = n
    IN
    [n \in DOMAIN rs \cup names |->
        IF n \in DOMAIN rs THEN [rs[n] EXCEPT !.permissions = ps]
        ELSE [level |-> config(n).level, is_system |-> config(n).is_system,
              permissions |-> IF n \in DOMAIN ROLE_PERMISSIONS
                              THEN {q \in ROLE_PERMISSIONS[n] : q \in ps}
                              ELSE {}]]

\* Faulty variant: the roles are stored without their permissions
seed_roles_NoGrants(rs, ps) ==
    LET names == {SYSTEM_ROLES[i].name : i \in 1 .. Len(SYSTEM_ROLES)}
        config(n) == CHOOSE c \in {SYSTEM_ROLES[i] : i \in 1 .. Len(SYSTEM_ROLES)} : c.name = n
    IN
    [n \in DOMAIN rs \cup names |->
        IF n \in DOMAIN rs THEN rs[n]
        ELSE [level |-> config(n).level, is_system |-> config(n).is_system,
              permissions |-> {}]]

seed_roles(rs, ps) ==
    LET names == {SYSTEM_ROLES[i].name : i \in 1 .. Len(SYSTEM_ROLES)}
        config(n) == CHOOSE c \in {SYSTEM_ROLES[i] : i \in 1 .. Len(SYSTEM_ROLES)} : c.name = n
    IN
    [n \in DOMAIN rs \cup names |->
        IF n \in DOMAIN rs THEN rs[n]
        ELSE [level |-> config(n).level, is_system |-> config(n).is_system,
              permissions |-> IF n \in DOMAIN ROLE_PERMISSIONS
                              THEN {q \in ROLE_PERMISSIONS[n] : q \in ps}
                              ELSE {}]]

\* A run with no other process between its two commits: what it returns
\* and leaves.  raised names the part of the try block in which the database
\* raises ("" for none): the permissions transaction, the roles transaction,
\* or the summary after the second commit, which loads role.permissions
\* again.  The except branch rolls back what is not committed and returns
\* False; what a commit stored stays stored.
SeedRaised == {"", "permissions", "roles", "summary"}

seed_roles_and_permissions(rs, ps, raised) ==
    IF raised = "permissions"
    THEN [result |-> FALSE, permissions |-> ps, roles |-> rs]
    ELSE IF raised = "roles"
    THEN [result |-> FALSE, permissions |-> seed_permissions(ps), roles |-> rs]
    ELSE [result |-> raised = "",
          permissions |-> seed_permissions(ps),
          roles |-> seed_roles(rs, seed_permissions(ps))]

\* The first transaction of a run: the permissions loop and its commit
SeedPermissions ==
    /\ permissions' = seed_permissions(permissions)
    /\ UNCHANGED <<users, nextId, now, settings, pending, roles>>

\* The second transaction of a run that is past its first commit: the roles
\* loop, which looks every permission up in the table as it is now
SeedRoles ==
    /\ PERMISSIONS \subseteq permissions
    /\ roles' = seed_roles(roles, permissions)
    /\ UNCHANGED <<users, nextId, now, settings, pending, permissions>>

\* A transaction of a run is rolled back: the tables stay as they are
SeedRaises(raised) ==
    /\ raised # ""
    /\ raised = "roles" => PERMISSIONS \subseteq permissions
    /\ raised = "summary" =>
          PERMISSIONS \subseteq permissions /\ SystemRoleNames \subseteq DOMAIN roles
    /\ ~seed_roles_and_permissions(roles, permissions, raised).result
    /\ UNCHANGED vars

\* A custom role of the host application ("Can also create custom roles"),
\* placed above admin in the hierarchy
CustomRole ==
    [name |-> "manager", level |-> 50, is_system |-> FALSE,
     permissions |-> {"users:read", "reports:view"}]

CreateRole ==
    /\ CustomRole.name \notin DOMAIN roles
    /\ permissions' = permissions \cup CustomRole.permissions
    /\ roles' = [n \in DOMAIN roles \cup {CustomRole.name} |->
                    IF n \in DOMAIN roles THEN roles[n]
                    ELSE [level |-> CustomRole.level, is_system |-> CustomRole.is_system,
                          permissions |-> CustomRole.permissions]]
    /\ UNCHANGED <<users, nextId, now, settings, pending>>

----------------------------------------------------------------------------
(* The methods of User.  rs is the roles table, held the list user.roles.   *)

\* Faulty variant: only the first role is looked at
RECURSIVE get_permissions_FirstRoleOnly(_, _)
get_permissions_FirstRoleOnly(rs, held) ==
    IF held = << >> THEN {} ELSE rs[Head(held)].permissions

\* User.get_permissions: the loop over self.roles and role.permissions
RECURSIVE get_permissions(_, _)
get_permissions(rs, held) ==
    IF held = << >> THEN {}
    ELSE rs[Head(held)].permissions \cup get_permissions(rs, Tail(held))

has_permission(rs, held, permission_name) == permission_name \in get_permissions(rs, held)

has_role(held, role_name) == \E i \in 1 .. Len(held) : held[i] = role_name

\* Faulty variant: super_admin is not counted
User_is_admin_AdminOnly(held) == has_role(held, "admin")

\* User.is_admin
User_is_admin(held) == has_role(held, "admin") \/ has_role(held, "super_admin")

----------------------------------------------------------------------------
(* RBACService.  user is an id of the users table, or None.                 *)

\* Faulty variant: the is_active test is missing
check_permission_NoActiveCheck(us, rs, user, permission_name) ==
    IF user = None THEN FALSE
    ELSE has_permission(rs, us[user].roles, permission_name)

check_permission(us, rs, user, permission_name) ==
    IF user = None \/ ~us[user].is_active THEN FALSE
    ELSE has_permission(rs, us[user].roles, permission_name)

check_role(us, user, role_name) ==
    IF user = None \/ ~us[user].is_active THEN FALSE
    ELSE has_role(us[user].roles, role_name)

is_admin(us, user) ==
    IF user = None \/ ~us[user].is_active THEN FALSE
    ELSE User_is_admin(us[user].roles)

get_user_permissions(us, rs, user) ==
    IF user = None \/ ~us[user].is_active THEN {}
    ELSE get_permissions(rs, us[user].roles)

\* The lists a load of user.roles may yield: the join on user_roles has no
\* ORDER BY, so the rows come in the order the database chooses
Orderings(list) ==
    {[i \in 1 .. Len(list) |-> list[f[i]]] :
        f \in {g \in [1 .. Len(list) -> 1 .. Len(list)] :
                  \A i, j \in 1 .. Len(list) : g[i] = g[j] => i = j}}

\* get_user_roles: the set of the lists the call may return
get_user_roles(us, user) ==
    IF user = None \/ ~us[user].is_active THEN {<< >>}
    ELSE Orderings(us[user].roles)

\* The user_roles row that user.roles.append(role) makes the ORM insert:
\* the two keys, assigned_at from its column default func.now(), and NULL in
\* the columns without a default
user_roles_insert(rows, role_name, t) ==
    [n \in DOMAIN rows \cup {role_name} |->
        IF n = role_name
        THEN [assigned_at |-> t, assigned_by |-> None, expires_at |-> None]
        ELSE rows[n]]

\* The row that user.roles.remove(role) makes the ORM delete
user_roles_delete(rows, role_name) == [n \in DOMAIN rows \ {role_name} |-> rows[n]]

\* Faulty variant: a role already held is appended again
assign_role_NoHeldCheck(us, rs, user, role_name, assigned_by, t) ==
    IF role_name \notin DOMAIN rs
    THEN [result |-> FALSE, users |-> us, log |-> "Role not found"]
    ELSE [result |-> TRUE,
          users |-> [us EXCEPT ![user].roles = Append(@, role_name),
                               ![user].user_roles = user_roles_insert(@, role_name, t)],
          log |-> "Role assigned"]

\* assign_role: the boolean returned, the table afterwards, the line logged.
\* assigned_by is a parameter the body never reads.
assign_role(us, rs, user, role_name, assigned_by, t) ==
    IF role_name \notin DOMAIN rs
    THEN [result |-> FALSE, users |-> us, log |-> "Role not found"]
    ELSE IF has_role(us[user].roles, role_name)
    THEN [result |-> FALSE, users |-> us, log |-> "User already has role"]
    ELSE [result |-> TRUE,
          users |-> [us EXCEPT ![user].roles = Append(@, role_name),
                               ![user].user_roles = user_roles_insert(@, role_name, t)],
          log |-> "Role assigned"]

\* Faulty variant: the first element is taken out, whatever it is
list_remove_Head(list, x) == IF list = << >> THEN << >> ELSE Tail(list)

\* list.remove(x): the first element equal to x is taken out
RECURSIVE list_remove(_, _)
list_remove(list, x) ==
    IF list = << >> THEN << >>
    ELSE IF Head(list) = x THEN Tail(list)
    ELSE <<Head(list)>> \o list_remove(Tail(list), x)

\* Faulty variant: a role not held is reported as removed
remove_role_NoHeldCheck(us, rs, user, role_name) ==
    IF role_name \notin DOMAIN rs
    THEN [result |-> FALSE, users |-> us, log |-> "Role not found"]
    ELSE [result |-> TRUE,
          users |-> [us EXCEPT ![user].roles = list_remove(@, role_name),
                               ![user].user_roles = user_roles_delete(@, role_name)],
          log |-> "Role removed"]

remove_role(us, rs, user, role_name) ==
    IF role_name \notin DOMAIN rs
    THEN [result |-> FALSE, users |-> us, log |-> "Role not found"]
    ELSE IF ~has_role(us[user].roles, role_name)
    THEN [result |-> FALSE, users |-> us, log |-> "User doesn't have role"]
    ELSE [result |-> TRUE,
          users |-> [us EXCEPT ![user].roles = list_remove(@, role_name),
                               ![user].user_roles = user_roles_delete(@, role_name)],
          log |-> "Role removed"]

AssignRole(user, role_name, assigned_by) ==
    LET r == assign_role(users, roles, user, role_name, assigned_by, now) IN
    /\ user \in DOMAIN users
    /\ r.result => Len(users[user].roles) < MaxRoles
    /\ users' = r.users
    /\ UNCHANGED <<nextId, now, settings, pending, roles, permissions>>

RemoveRole(user, role_name) ==
    /\ user \in DOMAIN users
    /\ users' = remove_role(users, roles, user, role_name).users
    /\ UNCHANGED <<nextId, now, settings, pending, roles, permissions>>

\* The callers of the read-only checks: a stored user or None
Subjects == DOMAIN users \cup {None}

CheckPermission(user, permission_name) ==
    /\ check_permission(users, roles, user, permission_name) \in BOOLEAN
    /\ UNCHANGED vars

CheckRole(user, role_name) ==
    /\ check_role(users, user, role_name) \in BOOLEAN
    /\ UNCHANGED vars

IsAdmin(user) ==
    /\ is_admin(users, user) \in BOOLEAN
    /\ UNCHANGED vars

GetUserPermissions(user) ==
    /\ get_user_permissions(users, roles, user) \subseteq permissions
    /\ UNCHANGED vars

GetUserRoles(user) ==
    /\ \E names \in get_user_roles(users, user) : Len(names) >= 0
    /\ UNCHANGED vars

\* The users.id sequence at its default start
InitRbac == Init /\ nextId = 1

NextRbac ==
    \/ SeedPermissions
    \/ SeedRoles
    \/ \E raised \in SeedRaised : SeedRaises(raised)
    \/ CreateRole
    \/ \E e \in Emails, u \in Usernames, s \in OneFreshSalt(users) : Register(e, u, "longpass", s)
    \/ \E id \in UserIds : Deactivate(id)
    \/ \E id \in UserIds : Activate(id)
    \/ \E id \in UserIds, n \in RoleNames, by \in Subjects : AssignRole(id, n, by)
    \/ \E id \in UserIds, n \in RoleNames : RemoveRole(id, n)
    \/ \E user \in Subjects, q \in PermissionNames : CheckPermission(user, q)
    \/ \E user \in Subjects, n \in RoleNames : CheckRole(user, n)
    \/ \E user \in Subjects : IsAdmin(user)
    \/ \E user \in Subjects : GetUserPermissions(user)
    \/ \E user \in Subjects : GetUserRoles(user)

SpecRbac == InitRbac /\ [][NextRbac]_vars

----------------------------------------------------------------------------
(* The seed run on an empty store, and users given the system roles.        *)

NextSeed ==
    \/ SeedPermissions
    \/ SeedRoles
    \/ \E raised \in SeedRaised : SeedRaises(raised)
    \/ \E e \in Emails, u \in Usernames, s \in OneFreshSalt(users) : Register(e, u, "longpass", s)
    \/ \E id \in UserIds, n \in SystemRoleNames, by \in Subjects : AssignRole(id, n, by)
    \/ \E id \in UserIds, n \in SystemRoleNames : RemoveRole(id, n)
    \/ \E id \in UserIds : Deactivate(id)
    \/ \E id \in UserIds : Activate(id)
    \/ \E user \in Subjects : GetUserPermissions(user)

SpecSeed == InitRbac /\ [][NextSeed]_vars

----------------------------------------------------------------------------
(* Role grants with an expiry.  No code of the plugin writes                *)
(* user_roles.expires_at: the host application sets it on a grant.          *)

GrantRoleNames == {"admin", "editor", "ghost"}

SetExpiry(id, role_name) ==
    /\ id \in DOMAIN users
    /\ role_name \in DOMAIN users[id].user_roles
    /\ users[id].user_roles[role_name].expires_at = None
    /\ now + TickHours <= MaxTime
    /\ users' = [users EXCEPT ![id].user_roles[role_name].expires_at = now + TickHours]
    /\ UNCHANGED <<nextId, now, settings, pending, roles, permissions>>

NextGrants ==
    \/ SeedPermissions
    \/ SeedRoles
    \/ \E raised \in SeedRaised : SeedRaises(raised)
    \/ \E s \in FreshSalts(users) : Register("a@x.com", "alice", "longpass", s)
    \/ \E id \in UserIds, n \in GrantRoleNames, by \in Subjects : AssignRole(id, n, by)
    \/ \E id \in UserIds, n \in GrantRoleNames : RemoveRole(id, n)
    \/ \E id \in UserIds, n \in GrantRoleNames : SetExpiry(id, n)
    \/ \E id \in UserIds : Deactivate(id)
    \/ \E id \in UserIds : Activate(id)
    \/ Tick
    \/ \E user \in Subjects, q \in PermissionNames : CheckPermission(user, q)
    \/ \E user \in Subjects, n \in GrantRoleNames : CheckRole(user, n)
    \/ \E user \in Subjects : IsAdmin(user)
    \/ \E user \in Subjects : GetUserPermissions(user)

SpecGrants == InitRbac /\ [][NextGrants]_vars

----------------------------------------------------------------------------
(* Sessions on one database calling assign_role    and remove_role.  Each  *)
(* call reads the roles table and user.roles first; its commit flushes one  *)
(* INSERT or DELETE on user_roles in a later round trip.                    *)

\* Faulty variant: user_roles has no primary key
assign_role_commit_NoPrimaryKey(us, user, role_name, t) ==
    [raised |-> "",
     users |-> [us EXCEPT ![user].roles = Append(@, role_name),
                          ![user].user_roles = user_roles_insert(@, role_name, t)]]

\* assign_role, lines 54-56: the INSERT of the commit.  The primary key
\* (user_id, role_id) of user_roles refuses a pair already stored.
assign_role_commit(us, user, role_name, t) ==
    IF role_name \in DOMAIN us[user].user_roles
    THEN [raised |-> "IntegrityError", users |-> us]
    ELSE [raised |-> "",
          users |-> [us EXCEPT ![user].roles = Append(@, role_name),
                               ![user].user_roles = user_roles_insert(@, role_name, t)]]

\* remove_role, lines 72-74: the DELETE of the commit.  When the row is gone
\* already it matches nothing: the ORM raises StaleDataError where the driver
\* reports row counts and goes on where it does not.
remove_role_commit(us, user, role_name) ==
    IF role_name \notin DOMAIN us[user].user_roles
    THEN {[raised |-> "StaleDataError", users |-> us], [raised |-> "", users |-> us]}
    ELSE {[raised |-> "",
           users |-> [us EXCEPT ![user].roles = list_remove(@, role_name),
                                ![user].user_roles = user_roles_delete(@, role_name)]]}

\* assign_role, lines 44-52: the role query and the test on user.roles
AssignRoleCheck(w, user, role_name) ==
    /\ pending[w].stage = "idle"
    /\ user \in DOMAIN users
    /\ pending' = [pending EXCEPT ![w] =
            IF role_name \notin DOMAIN roles \/ has_role(users[user].roles, role_name)
            THEN [stage |-> "done", op |-> "assign_role", user |-> user,
                  role_name |-> role_name, result |-> "False"]
            ELSE [stage |-> "checked", op |-> "assign_role", user |-> user,
                  role_name |-> role_name]]
    /\ UNCHANGED <<users, nextId, now, settings, roles, permissions>>

AssignRoleCommit(w) ==
    /\ pending[w].stage = "checked" /\ pending[w].op = "assign_role"
    /\ LET req == pending[w]
           c == assign_role_commit(users, req.user, req.role_name, now)
       IN
       /\ c.raised = "" => Len(users[req.user].roles) < MaxRoles
       /\ users' = c.users
       /\ pending' = [pending EXCEPT ![w] =
               [stage |-> "done", op |-> "assign_role", user |-> req.user,
                role_name |-> req.role_name,
                result |-> IF c.raised # "" THEN c.raised ELSE "True"]]
    /\ UNCHANGED <<nextId, now, settings, roles, permissions>>

\* remove_role, lines 63-70
RemoveRoleCheck(w, user, role_name) ==
    /\ pending[w].stage = "idle"
    /\ user \in DOMAIN users
    /\ pending' = [pending EXCEPT ![w] =
            IF role_name \notin DOMAIN roles \/ ~has_role(users[user].roles, role_name)
            THEN [stage |-> "done", op |-> "remove_role", user |-> user,
                  role_name |-> role_name, result |-> "False"]
            ELSE [stage |-> "checked", op |-> "remove_role", user |-> user,
                  role_name |-> role_name]]
    /\ UNCHANGED <<users, nextId, now, settings, roles, permissions>>

RemoveRoleCommit(w) ==
    /\ pending[w].stage = "checked" /\ pending[w].op = "remove_role"
    /\ LET req == pending[w] IN
       \E c \in remove_role_commit(users, req.user, req.role_name) :
           /\ users' = c.users
           /\ pending' = [pending EXCEPT ![w] =
                   [stage |-> "done", op |-> "remove_role", user |-> req.user,
                    role_name |-> req.role_name,
                    result |-> IF c.raised # "" THEN c.raised ELSE "True"]]
    /\ UNCHANGED <<nextId, now, settings, roles, permissions>>

NextRbacConc ==
    \/ SeedPermissions
    \/ SeedRoles
    \/ \E raised \in SeedRaised : SeedRaises(raised)
    \/ \E s \in FreshSalts(users) : Register("a@x.com", "alice", "longpass", s)
    \/ \E w \in Workers, id \in UserIds, n \in GrantRoleNames : AssignRoleCheck(w, id, n)
    \/ \E w \in Workers : AssignRoleCommit(w)
    \/ \E w \in Workers, id \in UserIds, n \in GrantRoleNames : RemoveRoleCheck(w, id, n)
    \/ \E w \in Workers : RemoveRoleCommit(w)
    \/ \E w \in Workers : Respond(w)

SpecRbacConc == InitRbac /\ [][NextRbacConc]_vars

----------------------------------------------------------------------------
(* Properties *)

Unexpired(tok, t) == t < tok.exp

\* C1: a well-signed, unexpired token is accepted only by the verifier of its
\* own type: verify_access_token yields an id only for type "access",
\* verify_refresh_token only for type "refresh"; a refresh token gets 401 from
\* get_current_user and an access token gets 401 from the refresh endpoint.
C1_TypeDiscriminant ==
    \A tok \in WellSigned(now) :
        Unexpired(tok, now) =>
            /\ verify_access_token(tok, now) # None => tok.type = "access"
            /\ verify_refresh_token(tok, now) # None => tok.type = "refresh"
            /\ tok.type = "refresh" =>
                   /\ verify_access_token(tok, now) = None
                   /\ get_current_user(users, tok, now).status = 401
            /\ tok.type = "access" =>
                   /\ verify_refresh_token(tok, now) = None
                   /\ refresh_token(users, settings, tok, now).status = 401

\* An active user's own unexpired refresh token, good for the refresh
\* endpoint, is refused as an access credential
C1_Witness ==
    \E id \in DOMAIN users, tok \in RefreshTokensBy(now) :
        /\ users[id].is_active /\ users[id].last_login # None
        /\ tok = create_refresh_token(id, settings.JWT_REFRESH_EXPIRATION_DAYS,
                                      users[id].last_login)
        /\ Unexpired(tok, now)
        /\ refresh_token(users, settings, tok, now).status = 200
        /\ get_current_user(users, tok, now).status = 401

\* C2: a token issued at s with lifetime d is rejected by its verifier at
\* every time after s + d (hours for access, days for refresh), and a token
\* that an earlier clock reading found expired is rejected now.
C2_ExpiredRejected ==
    /\ \A u \in UserIds, h \in TtlHours, s \in TimesUpTo(now) :
           now > s + h => verify_access_token(create_access_token(u, h, s), now) = None
    /\ \A u \in UserIds, d \in TtlDays, s \in TimesUpTo(now) :
           now > s + HoursPerDay * d =>
               verify_refresh_token(create_refresh_token(u, d, s), now) = None
    /\ \A tok \in WellSigned(now), t1 \in TimesUpTo(now) :
           jwt_decode(tok, JWT_SECRET_KEY, t1).raised = "ExpiredSignatureError" =>
               /\ verify_access_token(tok, now) = None
               /\ verify_refresh_token(tok, now) = None

\* Past the expiry of an access token and of a refresh token, both issued
\* with a positive lifetime and both accepted when issued
C2_Witness ==
    \E u \in UserIds, h \in TtlHours, d \in TtlDays, s \in TimesUpTo(now) :
        /\ h > 0 /\ d > 0
        /\ now > s + h /\ now > s + HoursPerDay * d
        /\ verify_access_token(create_access_token(u, h, s), s) = u
        /\ verify_refresh_token(create_refresh_token(u, d, s), s) = u
        /\ verify_access_token(create_access_token(u, h, s), now) = None
        /\ verify_refresh_token(create_refresh_token(u, d, s), now) = None

\* C3: for every user id and positive lifetime, the verifier returns the id
\* the token was created for at every time before the token's expiry.
C3_RoundTrip ==
    /\ \A u \in UserIds, h \in TtlHours, s \in TimesUpTo(now) :
           (h > 0 /\ now < s + h) =>
               verify_access_token(create_access_token(u, h, s), now) = u
    /\ \A u \in UserIds, d \in TtlDays, s \in TimesUpTo(now) :
           (d > 0 /\ now < s + HoursPerDay * d) =>
               verify_refresh_token(create_refresh_token(u, d, s), now) = u

\* Tokens issued at an earlier clock reading and still valid now
C3_Witness ==
    \E u \in UserIds, h \in TtlHours, d \in TtlDays, s \in TimesUpTo(now) :
        /\ s < now /\ now < s + h /\ now < s + HoursPerDay * d
        /\ verify_access_token(create_access_token(u, h, s), now) = u
        /\ verify_refresh_token(create_refresh_token(u, d, s), now) = u

\* The three ways authenticate_user fails
NoSuchEmail(email) == \A id \in DOMAIN users : users[id].email # email
WrongPassword(email, password) ==
    \E id \in DOMAIN users :
        users[id].email = email /\ ~verify_password(password, users[id].password_hash)
Inactive(email) ==
    \E id \in DOMAIN users : users[id].email = email /\ ~users[id].is_active

\* C4: unknown email, wrong password and inactive user all make
\* authenticate_user return None and login answer the same 401 response,
\* with the table left as it was.
C4_OpaqueLoginFailure ==
    \A e \in Emails, p \in Passwords :
        (NoSuchEmail(e) \/ WrongPassword(e, p) \/ Inactive(e)) =>
            /\ authenticate_user(users, e, p) = None
            /\ login(users, settings, e, p, now).response = Resp401Login
            /\ login(users, settings, e, p, now).users = users

\* One state with an unknown email, a wrong password for an active user and
\* the right password of an inactive user, all answered alike
C4_Witness ==
    \E e1, e2 \in Emails, p1, p2, p3 \in Passwords :
        /\ NoSuchEmail(e1) /\ ~NoSuchEmail(e2)
        /\ WrongPassword(e2, p2) /\ ~WrongPassword(e2, p3) /\ Inactive(e2)
        /\ login(users, settings, e1, p1, now).response
               = login(users, settings, e2, p2, now).response
        /\ login(users, settings, e2, p2, now).response
               = login(users, settings, e2, p3, now).response
        /\ login(users, settings, e2, p3, now).response.status = 401

\* C5: a user whose deleted_at is set is returned neither by
\* authenticate_user nor by get_current_user.
C5_SoftDeletedExcluded ==
    /\ \A e \in Emails, p \in Passwords :
           LET user == authenticate_user(users, e, p) IN
           user # None => users[user].deleted_at = None
    /\ \A tok \in Presentable(now) :
           LET r == get_current_user(users, tok, now) IN
           r.status = 200 => users[r.user].deleted_at = None

\* C6: authenticate_user and get_current_user return only users whose
\* is_active is true; while a user is inactive, login with any password fails
\* and every access token for that user is refused.
C6_ActiveOnly ==
    /\ \A e \in Emails, p \in Passwords :
           LET user == authenticate_user(users, e, p) IN
           user # None => users[user].is_active
    /\ \A tok \in Presentable(now) :
           LET r == get_current_user(users, tok, now) IN
           r.status = 200 => users[r.user].is_active
    /\ \A id \in DOMAIN users :
           ~users[id].is_active =>
               /\ \A p \in Passwords :
                      login(users, settings, users[id].email, p, now).response.status = 401
               /\ \A tok \in AccessTokensBy(now) :
                      tok.sub = str(id) => get_current_user(users, tok, now).status # 200

\* A user logged in, was deactivated, and the still unexpired access token of
\* that login is answered 403, the right password 401
C6_Witness ==
    \E id \in DOMAIN users, p \in Passwords :
        /\ ~users[id].is_active /\ users[id].last_login # None
        /\ verify_password(p, users[id].password_hash)
        /\ login(users, settings, users[id].email, p, now).response.status = 401
        /\ LET tok == create_access_token(id, settings.JWT_EXPIRATION_HOURS,
                                          users[id].last_login) IN
           /\ Unexpired(tok, now)
           /\ get_current_user(users, tok, now).status = 403

\* C7: get_current_user answers 401 when the token does not verify, otherwise
\* 404 when the user with the token's subject id is absent or deleted (its
\* deleted_at is set), otherwise 403 when that user is inactive, otherwise
\* the user whose id is the token's subject.
C7_FourOutcomesInOrder ==
    \A tok \in Presentable(now) :
        LET user_id == verify_access_token(tok, now)
            r == get_current_user(users, tok, now)
        IN
        IF user_id = None THEN r.status = 401
        ELSE IF user_id \notin DOMAIN users THEN r.status = 404
        ELSE IF users[user_id].deleted_at # None THEN r.status = 404
        ELSE IF ~users[user_id].is_active THEN r.status = 403
        ELSE r.status = 200 /\ r.user = user_id /\ r.user = int(tok.sub)

Collides(email, username) ==
    \E id \in DOMAIN users : users[id].email = email \/ users[id].username = username

\* C8: no two stored users share an email or a username, and a register whose
\* email or username is already stored is answered 409 and stores nothing.
C8_UniqueIdentity ==
    /\ \A i, j \in DOMAIN users :
           i # j => /\ users[i].email # users[j].email
                    /\ users[i].username # users[j].username
    /\ \A e \in Emails, u \in Usernames, p \in Passwords, s \in FreshSalts(users) :
           Collides(e, u) =>
               LET r == register(users, nextId, e, u, p, s, now) IN
               /\ r.response = Resp409
               /\ r.users = users

\* Two users are stored, emails differing in case only; a register reusing
\* one user's username under a new email is answered 409
C8_Witness ==
    /\ Cardinality(DOMAIN users) = 2
    /\ \E id \in DOMAIN users, e \in Emails, p \in Passwords, s \in FreshSalts(users) :
           /\ users[id].email # e
           /\ register(users, nextId, e, users[id].username, p, s, now).response.status = 409

\* C9: a register request that passed the pre-check and then lost the race
\* for its email or username is answered 409 like a pre-check failure: every
\* answer that create_user's commit leads to is 201 or 409.
C9_InsertConflictIsDuplicateIdentity ==
    \A w \in Workers :
        (pending[w].stage = "done" /\ pending[w].from = "create_user") =>
            pending[w].response.status \in {201, 409}

\* C10 as stated: every register with a password shorter than 8 characters
\* is answered 400 and stores nothing, and no non-colliding register with 8
\* or more characters is answered 400.
C10_WeakPasswordOriginal ==
    \A e \in Emails, u \in Usernames, p \in Passwords, s \in FreshSalts(users) :
        LET r == register(users, nextId, e, u, p, s, now) IN
        /\ Len(p) < 8 => (r.response.status = 400 /\ r.users = users)
        /\ (Len(p) >= 8 /\ ~Collides(e, u)) => r.response.status # 400

\* C10 amended: a register with a password shorter than 8 characters stores
\* nothing and is answered 400 when neither email nor username collides (409
\* when one does); a non-colliding register with 8 or more characters is
\* never answered 400, whatever the characters: it stores the user.
C10_WeakPassword ==
    \A e \in Emails, u \in Usernames, p \in Passwords, s \in FreshSalts(users) :
        LET r == register(users, nextId, e, u, p, s, now) IN
        /\ Len(p) < 8 =>
               /\ r.users = users
               /\ r.response = IF Collides(e, u) THEN Resp409 ELSE Resp400
        /\ (Len(p) >= 8 /\ ~Collides(e, u)) =>
               /\ r.response.status \notin {400, 409}
               /\ DOMAIN r.users = DOMAIN users \cup {r.id}
               /\ r.id \notin DOMAIN users
               /\ verify_password(p, r.users[r.id].password_hash)

\* A user is stored under a password of 8 characters of mixed kind, and a
\* non-colliding register with a 7-character password is answered 400
C10_Witness ==
    /\ \E id \in DOMAIN users : verify_password("1234 678", users[id].password_hash)
    /\ \E e \in Emails, u \in Usernames, p \in Passwords, s \in FreshSalts(users) :
           /\ ~Collides(e, u) /\ Len(p) < 8
           /\ register(users, nextId, e, u, p, s, now).response.status = 400

\* C11: a register with a password of 8 or more characters that collides with
\* no stored user is answered 201 and creates the user, and from then on
\* authenticate_user with
\* that email and password returns the user in every state where the stored
\* hash still verifies the password and the user is active; no email
\* verification is needed, the user's is_email_verified being false.
C11_RegisterThenLogin ==
    /\ \A e \in Emails, u \in Usernames, p \in Passwords, s \in FreshSalts(users) :
           (Len(p) >= 8 /\ ~Collides(e, u)) =>
               LET r == register(users, nextId, e, u, p, s, now) IN
               /\ r.response.status = 201
               /\ ~r.users[r.id].is_email_verified
               /\ authenticate_user(r.users, e, p) = r.id
               /\ login(r.users, settings, e, p, now).response.status = 200
    /\ \A id \in DOMAIN users, p \in Passwords :
           (users[id].is_active /\ verify_password(p, users[id].password_hash)) =>
               /\ authenticate_user(users, users[id].email, p) = id
               /\ login(users, settings, users[id].email, p, now).response.status = 200

\* Every column of every row is the same, but the password_hash of row id
\* and the updated_at its UPDATE stamps
SameButHash(us1, us2, id) ==
    /\ DOMAIN us1 = DOMAIN us2
    /\ \A j \in DOMAIN us1 :
           IF j = id THEN [us2[j] EXCEPT !.password_hash = us1[j].password_hash,
                                         !.updated_at = us1[j].updated_at] = us1[j]
           ELSE us2[j] = us1[j]

\* C12: change_password (service and route) overwrites the stored hash only
\* when old_password verifies against it; with a wrong old_password the
\* service returns False, the route answers 401, and no column of any user
\* changes.  When it does overwrite, only that user's hash and updated_at
\* change.
C12_OldPasswordGuardsChange ==
    /\ \A id \in DOMAIN users, old, new \in AllPasswords, s \in FreshSalts(users) :
           LET r == change_password(users, id, old, new, s, now) IN
           IF verify_password(old, users[id].password_hash)
           THEN /\ r.result
                /\ verify_password(new, r.users[id].password_hash)
                /\ SameButHash(users, r.users, id)
           ELSE ~r.result /\ r.users = users
    /\ \A tok \in AccessTokensBy(now), old, new \in Passwords, s \in FreshSalts(users) :
           LET current_user == get_current_user(users, tok, now)
               r == change_password_route(users, tok, old, new, s, now)
           IN
           IF current_user.status # 200 THEN r.users = users /\ r.status # 200
           ELSE IF verify_password(old, users[current_user.user].password_hash)
           THEN /\ r.status = 200
                /\ verify_password(new, r.users[current_user.user].password_hash)
                /\ SameButHash(users, r.users, current_user.user)
           ELSE r.status = 401 /\ r.users = users

\* A password was changed before (a 7-character password is stored), and a
\* change with a wrong old password is refused by the service and the route
C12_Witness ==
    \E id \in DOMAIN users, old, new \in Passwords, s \in FreshSalts(users) :
        /\ verify_password("short7c", users[id].password_hash)
        /\ ~verify_password(old, users[id].password_hash)
        /\ ~change_password(users, id, old, new, s, now).result
        /\ LET tok == create_access_token(id, settings.JWT_EXPIRATION_HOURS, now) IN
           /\ get_current_user(users, tok, now).status = 200
           /\ change_password_route(users, tok, old, new, s, now).status = 401

\* C13: a successful change_password(old, new) with new different from old
\* leaves a table in which authenticate_user fails with the old password and
\* returns the user with the new one; in every state an active user
\* authenticates with exactly the password the stored hash was made from.
C13_OldOutNewIn ==
    /\ \A id \in DOMAIN users, old, new \in AllPasswords, s \in FreshSalts(users) :
           LET r == change_password(users, id, old, new, s, now) IN
           (users[id].is_active /\ new # old /\ r.result) =>
               /\ authenticate_user(r.users, users[id].email, old) = None
               /\ authenticate_user(r.users, users[id].email, new) = id
               /\ login(r.users, settings, users[id].email, old, now).response.status = 401
               /\ login(r.users, settings, users[id].email, new, now).response.status = 200
    /\ \A id \in DOMAIN users :
           users[id].is_active =>
               \E p \in AllPasswords :
                   \A q \in AllPasswords :
                       authenticate_user(users, users[id].email, q) = (IF q = p THEN id ELSE None)

\* C14: a refresh with an unexpired refresh token of a stored user answers
\* 200 with a new access token whose subject is the refresh token's subject
\* and with the very refresh token presented; this at every clock reading
\* before the refresh token's expiry, however often it was used before.
C14_RefreshKeepsSubjectAndToken ==
    \A tok \in RefreshTokensBy(now) :
        LET user_id == verify_refresh_token(tok, now)
            r == refresh_token(users, settings, tok, now)
        IN
        (user_id # None /\ user_id \in DOMAIN users) =>
            /\ r.status = 200
            /\ r.access_token.sub = tok.sub
            /\ verify_access_token(r.access_token, now) = user_id
            /\ r.refresh_token = tok

\* A stored user's refresh token of an earlier hour, still unexpired, is
\* answered with an access token signed now and with itself
C14_Witness ==
    \E id \in DOMAIN users, s \in TimesUpTo(now) :
        LET tok == create_refresh_token(id, settings.JWT_REFRESH_EXPIRATION_DAYS, s)
            r == refresh_token(users, settings, tok, now)
        IN
        /\ s < now
        /\ users[id].last_login = s
        /\ r.status = 200
        /\ r.refresh_token = tok
        /\ r.access_token.iat = now /\ r.access_token.sub = str(id)

\* C15 as stated: refresh ends in a token response or in 401, nothing else.
C15_TwoOutcomesOriginal ==
    \A tok \in Presentable(now) :
        refresh_token(users, settings, tok, now).status \in {200, 401}

\* C15 amended: refresh ends in exactly one of three ways: 401 when the
\* token does not verify as a refresh token; 404 when it verifies and no
\* user has its subject id;
\* otherwise 200 with access_token, the refresh_token presented, token_type
\* and expires_in.
C15_ThreeOutcomes ==
    \A tok \in Presentable(now) :
        LET user_id == verify_refresh_token(tok, now)
            r == refresh_token(users, settings, tok, now)
        IN
        /\ r.status \in {200, 401, 404}
        /\ r.status = 401 <=> user_id = None
        /\ r.status = 404 <=> (user_id # None /\ user_id \notin DOMAIN users)
        /\ r.status = 200 =>
               /\ DOMAIN r = {"status", "access_token", "refresh_token", "token_type",
                              "expires_in"}
               /\ r.refresh_token = tok
               /\ r.expires_in = settings.JWT_EXPIRATION_HOURS * 3600
        /\ r.status # 200 => DOMAIN r = {"status", "detail"}

\* In one state a stored user's refresh token is answered 200, an access
\* token 401 and the refresh token of an id nobody has 404
C15_Witness ==
    \E t1, t2, t3 \in WellSigned(now) :
        /\ refresh_token(users, settings, t1, now).status = 200
        /\ t2.type = "access" /\ Unexpired(t2, now)
        /\ refresh_token(users, settings, t2, now).status = 401
        /\ t3.type = "refresh" /\ Unexpired(t3, now)
        /\ refresh_token(users, settings, t3, now).status = 404

\* C16: a login that authenticates answers 200 with an access token and a
\* refresh token that verify, each with its own verifier, to the id of the
\* user who authenticated, token_type "bearer" and expires_in the access
\* lifetime in hours times 3600; a login that does not authenticate answers
\* 401 with no token in the response.
C16_LoginResponse ==
    \A e \in Emails, p \in Passwords :
        LET user == authenticate_user(users, e, p)
            r == login(users, settings, e, p, now).response
        IN
        IF user # None
        THEN /\ r.status = 200
             /\ verify_access_token(r.access_token, now) = user
             /\ verify_refresh_token(r.refresh_token, now) = user
             /\ users[user].email = e
             /\ r.token_type = "bearer"
             /\ r.expires_in = settings.JWT_EXPIRATION_HOURS * 3600
        ELSE /\ r.status = 401
             /\ DOMAIN r = {"status", "detail"}

\* A user has logged in at this hour and the login answers both tokens for
\* that user, while a wrong password for the same email is answered 401
C16_Witness ==
    \E e \in Emails, p, q \in Passwords :
        /\ UserByEmail(users, e) # None
        /\ users[UserByEmail(users, e)].last_login = now
        /\ login(users, settings, e, p, now).response.status = 200
        /\ verify_refresh_token(login(users, settings, e, p, now).response.refresh_token, now)
               = UserByEmail(users, e)
        /\ login(users, settings, e, q, now).response.status = 401

\* The set of roles a user holds
RolesHeld(us, id) == {us[id].roles[i] : i \in 1 .. Len(us[id].roles)}

\* C17: get_user_permissions of an active user is the union, over the roles
\* the user holds, of each role's permission names; it is the empty set for
\* an inactive user and for no user (None); it has a value in every state.
C17_PermissionsAreUnionOverRoles ==
    /\ \A id \in DOMAIN users :
           get_user_permissions(users, roles, id) =
               IF users[id].is_active
               THEN UNION {roles[r].permissions : r \in RolesHeld(users, id)}
               ELSE {}
    /\ get_user_permissions(users, roles, None) = {}

\* An active user holds two roles, each granting a permission the other does
\* not, and gets both; an inactive user who holds a role gets nothing
C17_Witness ==
    /\ \E id \in DOMAIN users, q1, q2 \in permissions :
           /\ users[id].is_active /\ Len(users[id].roles) = 2
           /\ q1 \in roles[users[id].roles[1]].permissions
           /\ q1 \notin roles[users[id].roles[2]].permissions
           /\ q2 \in roles[users[id].roles[2]].permissions
           /\ q2 \notin roles[users[id].roles[1]].permissions
           /\ {q1, q2} \subseteq get_user_permissions(users, roles, id)
    /\ \E id \in DOMAIN users :
           /\ ~users[id].is_active /\ users[id].roles # << >>
           /\ get_user_permissions(users, roles, id) = {}

\* C18: is_admin is true exactly for an active user who holds a role named
\* "admin" or "super_admin"; a user holding only other roles is not admin,
\* whatever the levels of those roles, and None is not admin.
C18_AdminByRoleName ==
    /\ \A id \in DOMAIN users :
           /\ is_admin(users, id) <=>
                  /\ users[id].is_active
                  /\ ("admin" \in RolesHeld(users, id) \/ "super_admin" \in RolesHeld(users, id))
           /\ RolesHeld(users, id) = {"editor"} => ~is_admin(users, id)
           /\ RolesHeld(users, id) = {"admin"} => (is_admin(users, id) <=> users[id].is_active)
           /\ RolesHeld(users, id) \cap {"admin", "super_admin"} = {} => ~is_admin(users, id)
    /\ ~is_admin(users, None)

\* One active user holds only the custom role whose level is above admin's
\* and is not admin; another active user holds only super_admin and is
C18_Witness ==
    \E i, j \in DOMAIN users :
        /\ users[i].is_active /\ users[j].is_active
        /\ users[i].roles = <<"manager">>
        /\ "admin" \in DOMAIN roles /\ roles["manager"].level > roles["admin"].level
        /\ ~is_admin(users, i)
        /\ users[j].roles = <<"super_admin">>
        /\ is_admin(users, j)

\* All that assign_role and remove_role leave alone: the other users' rows
\* and every column of the user's row; the user's roles and user_roles rows
\* are what they write
SameButRoles(us1, us2, id) ==
    /\ DOMAIN us1 = DOMAIN us2
    /\ \A j \in DOMAIN us1 :
           IF j = id
           THEN [us2[j] EXCEPT !.roles = us1[j].roles,
                               !.user_roles = us1[j].user_roles] = us1[j]
           ELSE us2[j] = us1[j]

\* C19: assign_role returns True exactly when a role of that name is stored
\* and the user does not hold it, and then the user's roles are those held
\* before plus that one role; for a role already held it returns False
\* (logged "User already has role") and for an unknown name False (logged
\* "Role not found"), the table staying as it was in both cases.
C19_AssignRole ==
    \A id \in DOMAIN users, n \in RoleNames, by \in Subjects :
        LET r == assign_role(users, roles, id, n, by, now)
            held == RolesHeld(users, id)
        IN
        /\ r.result <=> (n \in DOMAIN roles /\ n \notin held)
        /\ r.result =>
               /\ RolesHeld(r.users, id) = held \cup {n}
               /\ Len(r.users[id].roles) = Len(users[id].roles) + 1
               /\ SameButRoles(users, r.users, id)
        /\ ~r.result => r.users = users
        /\ (n \in DOMAIN roles /\ n \in held) => r.log = "User already has role"
        /\ n \notin DOMAIN roles => r.log = "Role not found"

\* A user who holds a role is refused that role again and refused an unknown
\* role, and is given a stored role not yet held
C19_Witness ==
    \E id \in DOMAIN users, n1, n2, n3 \in RoleNames :
        /\ n1 \in RolesHeld(users, id)
        /\ ~assign_role(users, roles, id, n1, None, now).result
        /\ roles # << >> /\ n2 \notin DOMAIN roles
        /\ ~assign_role(users, roles, id, n2, None, now).result
        /\ n3 \in DOMAIN roles /\ n3 \notin RolesHeld(users, id)
        /\ assign_role(users, roles, id, n3, None, now).result

\* C20: remove_role returns True exactly when a role of that name is stored
\* and the user holds it, and then the user's roles are those held before
\* minus that one role; for a role not held it returns False (logged "User
\* doesn't have role") and for an unknown name False (logged "Role not
\* found"), the table staying as it was in both cases.
C20_RemoveRole ==
    \A id \in DOMAIN users, n \in RoleNames :
        LET r == remove_role(users, roles, id, n)
            held == RolesHeld(users, id)
        IN
        /\ r.result <=> (n \in DOMAIN roles /\ n \in held)
        /\ r.result =>
               /\ RolesHeld(r.users, id) = held \ {n}
               /\ Len(r.users[id].roles) = Len(users[id].roles) - 1
               /\ SameButRoles(users, r.users, id)
        /\ ~r.result => r.users = users
        /\ (n \in DOMAIN roles /\ n \notin held) => r.log = "User doesn't have role"
        /\ n \notin DOMAIN roles => r.log = "Role not found"

\* A user who holds two roles can have the first removed, and is refused the
\* removal of a stored role not held and of an unknown role
C20_Witness ==
    \E id \in DOMAIN users, n2, n3 \in RoleNames :
        /\ Len(users[id].roles) = 2
        /\ remove_role(users, roles, id, users[id].roles[1]).result
        /\ remove_role(users, roles, id, users[id].roles[1]).users[id].roles
               = <<users[id].roles[2]>>
        /\ n2 \in DOMAIN roles /\ n2 \notin RolesHeld(users, id)
        /\ ~remove_role(users, roles, id, n2).result
        /\ n3 \notin DOMAIN roles
        /\ ~remove_role(users, roles, id, n3).result

\* C27: the configuration in use has a signing secret of at least 32
\* characters, a shorter one having been rejected when the settings were
\* loaded: every token a login hands out is signed, and every token a
\* verifier accepts is verified, with a key of length 32 or more.
C27_SecretLengthEnforced ==
    /\ Len(settings.JWT_SECRET_KEY) >= 32
    /\ \A e \in Emails, p \in Passwords :
           LET r == login(users, settings, e, p, now).response IN
           r.status = 200 =>
               Len(r.access_token.key) >= 32 /\ Len(r.refresh_token.key) >= 32
    /\ \A tok \in Presentable(now) :
           (verify_access_token(tok, now) # None \/ verify_refresh_token(tok, now) # None) =>
               Len(tok.key) >= 32

\* The roles whose grant to the user has not expired at time t
LiveRoles(us, id, t) ==
    {n \in RolesHeld(us, id) :
        us[id].user_roles[n].expires_at = None \/ us[id].user_roles[n].expires_at >= t}

\* C21: a grant whose expires_at lies in the past does not count:
\* get_user_permissions, check_permission, check_role and is_admin answer
\* for an active user as if only the roles with an unexpired grant were held.
C21_ExpiredGrantsDoNotCount ==
    \A id \in DOMAIN users :
        users[id].is_active =>
            LET live == LiveRoles(users, id, now)
                granted == UNION {roles[n].permissions : n \in live}
            IN
            /\ get_user_permissions(users, roles, id) = granted
            /\ \A q \in PermissionNames : check_permission(users, roles, id, q) <=> q \in granted
            /\ \A n \in RoleNames : check_role(users, id, n) <=> n \in live
            /\ is_admin(users, id) <=> (live \cap {"admin", "super_admin"} # {})

\* C30: a successful assign_role(user, roleName, assigned_by = X) leaves a
\* user_roles row for the pair whose assigned_by is X (None only when no
\* assigner was given) and whose assigned_at is the time of the call.
C30_EdgeRecordsAssigner ==
    \A id \in DOMAIN users, n \in RoleNames, by \in Subjects :
        LET r == assign_role(users, roles, id, n, by, now) IN
        r.result =>
            /\ n \in DOMAIN r.users[id].user_roles
            /\ r.users[id].user_roles[n].assigned_by = by
            /\ r.users[id].user_roles[n].assigned_at = now

\* C22: once the empty store is seeded, an active user who holds exactly one
\* system role has exactly the permissions of that role's entry in the
\* shipped grant table, for each of the five system roles; for "author"
\* these are posts:create, posts:read, posts:update, comments:create and
\* comments:read.
C22_SeededGrantTable ==
    roles # << >> =>
        /\ DOMAIN roles = {"super_admin", "admin", "editor", "author", "user"}
        /\ \A id \in DOMAIN users, r \in DOMAIN roles :
               (users[id].is_active /\ users[id].roles = <<r>>) =>
                   get_user_permissions(users, roles, id) = ROLE_PERMISSIONS[r]
        /\ \A id \in DOMAIN users :
               (users[id].is_active /\ users[id].roles = <<"author">>) =>
                   get_user_permissions(users, roles, id) =
                       {"posts:create", "posts:read", "posts:update",
                        "comments:create", "comments:read"}

\* One active user holds exactly author and has its five permissions,
\* another holds exactly user and has its three
C22_Witness ==
    \E i, j \in DOMAIN users :
        /\ users[i].is_active /\ users[i].roles = <<"author">>
        /\ Cardinality(get_user_permissions(users, roles, i)) = 5
        /\ "comments:create" \in get_user_permissions(users, roles, i)
        /\ users[j].is_active /\ users[j].roles = <<"user">>
        /\ get_user_permissions(users, roles, j) =
               {"posts:read", "comments:create", "comments:read"}

\* C23: the system roles stored by the seed have the levels user 0, author
\* 10, editor 20, admin 30, super_admin 40, and of any two of them the one of
\* higher level is granted every permission of the one of lower level.
C23_AdditiveByLevel ==
    roles # << >> =>
        /\ roles["user"].level = 0 /\ roles["author"].level = 10
        /\ roles["editor"].level = 20 /\ roles["admin"].level = 30
        /\ roles["super_admin"].level = 40
        /\ \A r1, r2 \in DOMAIN roles :
               (roles[r1].is_system /\ roles[r2].is_system
                    /\ roles[r1].level < roles[r2].level) =>
                   roles[r1].permissions \subseteq roles[r2].permissions

\* C24: password-reset-request answers the same 200 response for every
\* email, stored or not, and leaves the store as it was.
C24_ResetRequestIsOpaque ==
    \A e1, e2 \in Emails :
        LET r1 == request_password_reset(users, e1)
            r2 == request_password_reset(users, e2)
        IN
        /\ r1.response.status = 200
        /\ r1.response = r2.response
        /\ r1.users = users

\* One email is a stored user's and the other is nobody's, and both get the
\* same answer
C24_Witness ==
    \E e1, e2 \in Emails :
        /\ ~NoSuchEmail(e1) /\ NoSuchEmail(e2)
        /\ request_password_reset(users, e1).response
               = request_password_reset(users, e2).response
        /\ request_password_reset(users, e2).response.status = 200

\* C25: what a verifier answers for a token is decided by the token and the
\* clock alone: in every state of the store, after logins, logouts,
\* password changes and deactivations, a signed token of the right type
\* verifies to its subject until its expiry, and logout changes nothing.
C25_NoRevocation ==
    /\ \A tok \in WellSigned(now) :
           /\ verify_access_token(tok, now) =
                  (IF tok.type = "access" /\ now < tok.exp THEN int(tok.sub) ELSE None)
           /\ verify_refresh_token(tok, now) =
                  (IF tok.type = "refresh" /\ now < tok.exp THEN int(tok.sub) ELSE None)
    /\ \A tok \in Presentable(now) : logout(users, tok, now).users = users

\* A user logged in at an earlier hour, has changed the password since (to
\* the 7-character one) and was deactivated; the refresh token of that
\* login and an access token signed at that hour still verify
C25_Witness ==
    \E id \in DOMAIN users, tok \in AccessTokensBy(now) :
        /\ users[id].last_login # None /\ users[id].last_login < now
        /\ verify_password("short7c", users[id].password_hash)
        /\ ~users[id].is_active
        /\ tok.sub = str(id) /\ tok.iat = users[id].last_login
        /\ verify_access_token(tok, now) = id
        /\ verify_refresh_token(
               create_refresh_token(id, settings.JWT_REFRESH_EXPIRATION_DAYS,
                                    users[id].last_login), now) = id

\* Every column of every row but the last_login of row id is the same
SameButLastLogin(us1, us2, id) ==
    /\ DOMAIN us1 = DOMAIN us2
    /\ \A j \in DOMAIN us1 :
           IF j = id THEN [us2[j] EXCEPT !.last_login = us1[j].last_login] = us1[j]
           ELSE us2[j] = us1[j]

\* Every column of every row is the same, but the last_login of row id and
\* the updated_at its UPDATE stamps
SameButLastLoginAndUpdatedAt(us1, us2, id) ==
    /\ DOMAIN us1 = DOMAIN us2
    /\ \A j \in DOMAIN us1 :
           IF j = id THEN [us2[j] EXCEPT !.last_login = us1[j].last_login,
                                         !.updated_at = us1[j].updated_at] = us1[j]
           ELSE us2[j] = us1[j]

\* C26 as stated: authenticate_user writes last_login, the current time,
\* exactly when it returns a user: a failed attempt leaves every row as it
\* was, a successful one changes that user's last_login and nothing else.
C26_LastLoginFrameOriginal ==
    \A e \in Emails, p \in Passwords :
        LET user == authenticate_user(users, e, p)
            after == authenticate_user_commit(users, user, now)
        IN
        /\ login(users, settings, e, p, now).users = after
        /\ user = None => after = users
        /\ user # None =>
               /\ after[user].last_login = now
               /\ SameButLastLogin(users, after, user)

\* C26 amended: authenticate_user writes last_login, the current time,
\* exactly when it returns a user: a failed attempt leaves every row as it
\* was, a successful one sets that user's last_login and updated_at to the
\* current time and changes nothing else.
C26_LastLoginFrame ==
    \A e \in Emails, p \in Passwords :
        LET user == authenticate_user(users, e, p)
            after == authenticate_user_commit(users, user, now)
        IN
        /\ login(users, settings, e, p, now).users = after
        /\ user = None => after = users
        /\ user # None =>
               /\ after[user].last_login = now
               /\ after[user].updated_at = now
               /\ SameButLastLoginAndUpdatedAt(users, after, user)

\* A user's last login and last update are of an earlier hour; a login now
\* moves both, a wrong password leaves the row
C26_Witness ==
    \E id \in DOMAIN users, p, q \in Passwords :
        /\ users[id].last_login # None /\ users[id].last_login < now
        /\ users[id].updated_at < now
        /\ login(users, settings, users[id].email, p, now).users # users
        /\ login(users, settings, users[id].email, p, now).users[id].last_login = now
        /\ login(users, settings, users[id].email, p, now).users[id].updated_at = now
        /\ login(users, settings, users[id].email, q, now).users = users

\* C28: change_password with the right old password succeeds for a new
\* password of any length, also one of fewer than 8 characters, which the
\* stored hash then verifies; the route does the same for the user of a
\* valid access token.
C28_NoMinimumLengthOnChange ==
    /\ \A id \in DOMAIN users, old, new \in Passwords, s \in FreshSalts(users) :
           verify_password(old, users[id].password_hash) =>
               LET r == change_password(users, id, old, new, s, now) IN
               /\ r.result
               /\ verify_password(new, r.users[id].password_hash)
    /\ \A tok \in AccessTokensBy(now), old, new \in Passwords, s \in FreshSalts(users) :
           LET current_user == get_current_user(users, tok, now) IN
           (current_user.status = 200
                /\ verify_password(old, users[current_user.user].password_hash)) =>
               LET r == change_password_route(users, tok, old, new, s, now) IN
               /\ r.status = 200
               /\ verify_password(new, r.users[current_user.user].password_hash)

\* A stored credential is shorter than the registration rule allows: an
\* active user logs in with a 7-character password that register refuses
C28_Witness ==
    \E id \in DOMAIN users, p \in Passwords, s \in FreshSalts(users) :
        /\ Len(p) < 8
        /\ verify_password(p, users[id].password_hash)
        /\ login(users, settings, users[id].email, p, now).response.status = 200
        /\ \A e \in Emails, u \in Usernames :
               /\ register(users, nextId, e, u, p, s, now).response.status \in {400, 409}
               /\ register(users, nextId, e, u, p, s, now).users = users

OnePairPerRole ==
    \A id \in DOMAIN users :
        /\ \A i, j \in 1 .. Len(users[id].roles) :
               i # j => users[id].roles[i] # users[id].roles[j]
        /\ DOMAIN users[id].user_roles = RolesHeld(users, id)

\* A step in which session w ends the commit of its assign_role call: the
\* call is answered True exactly when the pair was absent, and the step then
\* stores it; when the pair was present (another call stored it after this
\* one's test) the call raises IntegrityError and the table stays as it was
AssignCommitStep(w) ==
    (/\ pending[w].stage = "checked" /\ pending[w].op = "assign_role"
     /\ pending'[w].stage = "done") =>
        LET user == pending[w].user
            role_name == pending[w].role_name
        IN
        IF role_name \in RolesHeld(users, user)
        THEN pending'[w].result = "IntegrityError" /\ users' = users
        ELSE /\ pending'[w].result = "True"
             /\ RolesHeld(users', user) = RolesHeld(users, user) \cup {role_name}

\* A step that takes a pair out of the relation is the commit of a
\* remove_role call for that pair, answered True
PairLeavesByRemove ==
    \A id \in DOMAIN users, n \in GrantRoleNames :
        (n \in RolesHeld(users, id) /\ n \notin RolesHeld(users', id)) =>
            \E w \in Workers :
                /\ pending[w].stage = "checked" /\ pending[w].op = "remove_role"
                /\ pending[w].user = id /\ pending[w].role_name = n
                /\ pending'[w].stage = "done" /\ pending'[w].result = "True"

----------------------------------------------------------------------------
\* C31: the two AuthService copies agree on hash_password, verify_password,
\* create_user, authenticate_user and change_password: called on the same
\* table with the same arguments (and the same bcrypt salt) they return the
\* same result and leave the same table, so by induction they agree on any
\* sequence of these calls from the same initial table.
C31_TwoAuthServicesAgree ==
    /\ \A p \in AllPasswords, s \in Salts :
          /\ legacy_hash_password(p, s) = hash_password(p, s)
          /\ \A q \in AllPasswords :
                legacy_verify_password(q, hash_password(p, s))
                    = verify_password(q, legacy_hash_password(p, s))
    /\ \A id \in DOMAIN users, p \in Passwords :
          legacy_verify_password(p, users[id].password_hash)
              = verify_password(p, users[id].password_hash)
    /\ \A e \in Emails, u \in Usernames, p \in Passwords, s \in FreshSalts(users) :
          legacy_create_user(users, nextId, e, u, p, s, now) = create_user(users, nextId, e, u, p, s, now)
    /\ \A e \in Emails, p \in Passwords :
          /\ legacy_authenticate_user(users, e, p) = authenticate_user(users, e, p)
          /\ legacy_authenticate_user_commit(users, legacy_authenticate_user(users, e, p), now)
                = authenticate_user_commit(users, authenticate_user(users, e, p), now)
    /\ \A id \in DOMAIN users, old, new \in Passwords, s \in FreshSalts(users) :
          legacy_change_password(users, id, old, new, s, now) = change_password(users, id, old, new, s, now)

\* Two rows, one switched off and one that has just logged in; the copies
\* refuse the first, accept the second and change its password
C31_Witness ==
    \E a, b \in DOMAIN users, p, q \in Passwords, s \in FreshSalts(users) :
        /\ a # b
        /\ ~users[a].is_active
        /\ verify_password(p, users[a].password_hash)
        /\ legacy_authenticate_user(users, users[a].email, p) = None
        /\ users[b].last_login = now
        /\ legacy_authenticate_user(users, users[b].email, q) = b
        /\ legacy_change_password(users, b, q, p, s, now).result
        /\ legacy_create_user(users, nextId, users[a].email, "carol", p, s, now).raised = "IntegrityError"

----------------------------------------------------------------------------
\* C32: for a caller that is None, inactive or active, check_permission is
\* true exactly for the names in get_user_permissions and check_role exactly
\* for the names in get_user_roles; for None and for an inactive user the
\* five queries answer False, False, False, the empty set and the empty
\* list, whatever roles the user's row still holds.  get_user_roles is
\* taken in every order the database may return the names in.
C32_QueriesAgree ==
    \A user \in Subjects :
        /\ \A q \in PermissionNames \cup permissions :
              check_permission(users, roles, user, q)
                  <=> q \in get_user_permissions(users, roles, user)
        /\ \A n \in RoleNames \cup DOMAIN roles :
              \A names \in get_user_roles(users, user) :
                  check_role(users, user, n)
                      <=> \E i \in 1 .. Len(names) : names[i] = n
        /\ (user = None \/ ~users[user].is_active) =>
              /\ \A q \in PermissionNames \cup permissions :
                    ~check_permission(users, roles, user, q)
              /\ \A n \in RoleNames \cup DOMAIN roles : ~check_role(users, user, n)
              /\ ~is_admin(users, user)
              /\ get_user_permissions(users, roles, user) = {}
              /\ get_user_roles(users, user) = {<< >>}

\* An inactive admin whose membership is still stored, next to an active
\* user whose permission check succeeds
C32_Witness ==
    \E a, b \in DOMAIN users :
        /\ ~users[a].is_active
        /\ User_is_admin(users[a].roles)
        /\ get_permissions(roles, users[a].roles) # {}
        /\ users[b].is_active
        /\ \E q \in PermissionNames : check_permission(users, roles, b, q)
        /\ \E n \in RoleNames : check_role(users, b, n)

----------------------------------------------------------------------------
\* C33: a successful assign_role(user, r) followed by remove_role(user, r)
\* succeeds and leaves the user's role set and user_roles rows as they were
\* before the two calls, and under sequential assign_role and remove_role
\* calls no role name occurs twice in a user's role list, in whatever order
\* the list is loaded.
C33_AssignRemoveRoundTrip ==
    \A id \in DOMAIN users :
        /\ \A names \in Orderings(users[id].roles) :
              \A i, j \in 1 .. Len(names) : names[i] = names[j] => i = j
        /\ \A n \in RoleNames, by \in Subjects :
              LET a == assign_role(users, roles, id, n, by, now) IN
              a.result =>
                  LET r == remove_role(a.users, roles, id, n) IN
                  /\ r.result
                  /\ RolesHeld(r.users, id) = RolesHeld(users, id)
                  /\ get_user_roles(r.users, id) = get_user_roles(users, id)
                  /\ r.users[id].user_roles = users[id].user_roles

\* A user who holds one role already and can be given a second one
C33_Witness ==
    \E id \in DOMAIN users, n \in RoleNames :
        /\ Len(users[id].roles) = 1
        /\ users[id].roles[1] # n
        /\ assign_role(users, roles, id, n, None, now).result
        /\ RolesHeld(remove_role(assign_role(users, roles, id, n, None, now).users,
                                 roles, id, n).users, id)
              = RolesHeld(users, id)

----------------------------------------------------------------------------
\* C34: the refresh endpoint does not read is_active.  For a stored but
\* deactivated user, a verifying refresh token is answered 200 with a new
\* access token; get_current_user answers 403 to that access token, and to
\* any unexpired access token of that user, while the user is inactive; and
\* the refresh endpoint answers 404 only when the token verifies and no
\* user has its subject id.
C34_RefreshIgnoresActiveFlag ==
    /\ \A tok \in RefreshTokensBy(now) :
          LET user_id == verify_refresh_token(tok, now)
              r == refresh_token(users, settings, tok, now)
          IN
          /\ (user_id # None /\ user_id \in DOMAIN users /\ ~users[user_id].is_active) =>
                /\ r.status = 200
                /\ get_current_user(users, r.access_token, now).status = 403
          /\ r.status = 404 => (user_id # None /\ user_id \notin DOMAIN users)
    /\ \A tok \in AccessTokensBy(now) :
          LET user_id == int(tok.sub) IN
          (user_id \in DOMAIN users /\ ~users[user_id].is_active) =>
              get_current_user(users, tok, now).status
                  = IF Unexpired(tok, now) THEN 403 ELSE 401

\* A user logged in and was deactivated: the refresh token of that login is
\* answered 200, and the access token it yields 403
C34_Witness ==
    \E id \in DOMAIN users :
        LET tok == create_refresh_token(id, settings.JWT_REFRESH_EXPIRATION_DAYS,
                                        users[id].last_login)
            r == refresh_token(users, settings, tok, now)
        IN
        /\ ~users[id].is_active /\ users[id].last_login # None
        /\ r.status = 200
        /\ get_current_user(users, r.access_token, now).status = 403
        /\ \E absent \in RefreshTokensBy(now) :
               refresh_token(users, settings, absent, now).status = 404

----------------------------------------------------------------------------
\* C35: register looks for a stored email or username before it looks at
\* the password length: a request that collides and whose password is
\* shorter than 8 characters is answered 409, not 400; and whenever the
\* answer is 409 or 400 the users table is as before and no id is created.
C35_DuplicateBeforeWeakPassword ==
    \A e \in Emails, u \in Usernames, p \in Passwords, s \in FreshSalts(users) :
        LET r == register(users, nextId, e, u, p, s, now) IN
        /\ (Collides(e, u) /\ Len(p) < 8) =>
               /\ r.response.status = 409
               /\ r.response.detail = "Email or username already registered"
        /\ r.response.status \in {400, 409} =>
               /\ r.users = users
               /\ r.id = None
        /\ r.response.status = 400 => ~Collides(e, u)

\* A stored user; a 7-character register reusing that user's email is
\* answered 409 and one reusing nothing is answered 400
C35_Witness ==
    \E id \in DOMAIN users, e \in Emails, u \in Usernames, s \in FreshSalts(users) :
        /\ Len("short7c") < 8
        /\ register(users, nextId, users[id].email, u, "short7c", s, now).response.status = 409
        /\ ~Collides(e, u)
        /\ register(users, nextId, e, u, "short7c", s, now).response.status = 400

----------------------------------------------------------------------------
\* C36: a run of seed_roles_and_permissions in which the database does
\* not raise returns True and is idempotent: a run
\* leaves every role already stored, with its permission set, and every
\* permission already stored as they are, and a second run right after a
\* first changes nothing; on a store holding the 24 permissions and the 5
\* system roles a run adds no permission, no role and no grant.
C36_SeedIdempotent ==
    LET once == seed_roles_and_permissions(roles, permissions, "")
        twice == seed_roles_and_permissions(once.roles, once.permissions, "")
    IN
    /\ once.result /\ twice.result
    /\ permissions \subseteq once.permissions
    /\ \A n \in DOMAIN roles : once.roles[n] = roles[n]
    /\ twice.permissions = once.permissions
    /\ twice.roles = once.roles
    /\ (PERMISSIONS \subseteq permissions /\ SystemRoleNames \subseteq DOMAIN roles) =>
          /\ once.permissions = permissions
          /\ once.roles = roles

\* A seeded store that also holds the host's custom role and a user with a
\* seeded role
C36_Witness ==
    /\ PERMISSIONS \subseteq permissions
    /\ SystemRoleNames \subseteq DOMAIN roles
    /\ roles["editor"].permissions = ROLE_PERMISSIONS["editor"]
    /\ CustomRole.name \in DOMAIN roles
    /\ \E id \in DOMAIN users : has_role(users[id].roles, "admin")
    /\ seed_roles_and_permissions(roles, permissions, "").roles = roles

----------------------------------------------------------------------------
\* C37: for every stored, active user id, id 0 included, an unexpired
\* well-signed access token is answered by get_current_user with that user
\* and an unexpired well-signed refresh token by the refresh endpoint with
\* an access token for that id; the test the two handlers make on the
\* verifier's result does not take such an id for a failed verification.
C37_EveryUserIdAccepted ==
    \A id \in DOMAIN users, s \in TimesUpTo(now) :
        LET access == create_access_token(id, settings.JWT_EXPIRATION_HOURS, s)
            refresh == create_refresh_token(id, settings.JWT_REFRESH_EXPIRATION_DAYS, s)
        IN
        /\ (users[id].is_active /\ verify_access_token(access, now) = id) =>
               LET r == get_current_user(users, access, now) IN
               /\ ~Falsy(verify_access_token(access, now))
               /\ r.status = 200
               /\ r.user = id
        /\ (users[id].is_active /\ verify_refresh_token(refresh, now) = id) =>
               LET r == refresh_token(users, settings, refresh, now) IN
               /\ ~Falsy(verify_refresh_token(refresh, now))
               /\ r.status = 200
               /\ verify_access_token(r.access_token, now) = id

====
